---- MODULE Spec2Model ----
(***************************************************************************)
(* Model of the kasa repository layer: every entity kind is persisted in   *)
(* an SQLite table (the authoritative store) and mirrored in a Redis hash  *)
(* under the key "<kind>:<id>" (the cache).  The repository operations are *)
(* written once, as a step function over (store, cache, caller's locals),  *)
(* one step per store transaction or cache call.  Spec interleaves the     *)
(* steps of concurrent callers, SeqSpec runs the same steps one operation  *)
(* at a time, and SvcSpec runs whole repository and service calls.         *)
(***************************************************************************)
EXTENDS Integers, FiniteSets, Sequences, TLC

VARIABLES store, cache, loc, nops, last, lastStore, made

vars == <<store, cache, loc, nops, last, lastStore, made>>

(***************************************************************************)
(* Bounds.                                                                 *)
(***************************************************************************)
MaxId == 2          \* largest id a table hands out in the model
MaxOps == 3         \* operations started in one behaviour
MaxFuel == 2        \* cache calls that succeed before an injected outage

Procs == {"p1", "p2"}
Ids == 1..MaxId

(***************************************************************************)
(* Entities.  A table row is the map of its non-key columns; the entity    *)
(* object adds the integer primary key.                                    *)
(***************************************************************************)
Kinds == {"salt", "cipher"}

SaltItems ==
    { [method |-> "sha256", salt |-> "s1"],
      [method |-> "md5", salt |-> "s2"] }

\* a cipher's name is text that is searched: a sequence of characters
CipherItems ==
    { [name |-> <<"d", "a">>, encrypted_cipher |-> "x", method |-> "aes128"],
      [name |-> <<"D", "b">>, encrypted_cipher |-> "y", method |-> "chacha20"] }

Items(k) == IF k = "salt" THEN SaltItems ELSE CipherItems

NoItem == [none |-> TRUE]

\* a Python int and the str Redis hands back for it are different values
IntVal(n) == [t |-> "int", v |-> n]
StrVal(n) == [t |-> "str", v |-> n]

\* the ORM object of row i
Entity(i, fields) == [id |-> IntVal(i), data |-> fields]

\* to_dict(): the object's attributes, unchanged
ToDict(ent) == [id |-> ent.id, data |-> ent.data]

\* from_dict(): the constructor receives the map's values as they are
FromDict(map) == [id |-> map.id, data |-> map.data]

\* what HSET stores and HGETALL (decode_responses=True) returns: every value
\* as a string; the text columns already are strings
RedisEncode(map) == [id |-> StrVal(map.id.v), data |-> map.data]

(***************************************************************************)
(* Finite maps: a table is a function from the ids of its rows, the cache  *)
(* a function from the keys <<kind, id>> it holds.                         *)
(***************************************************************************)
EmptyMap == <<>>

Put(f, key, val) == [x \in (DOMAIN f) \cup {key} |-> IF x = key THEN val ELSE f[x]]

Remove(f, key) == [x \in (DOMAIN f) \ {key} |-> f[x]]

Has(f, key) == key \in DOMAIN f

SetMax(S) == CHOOSE m \in S : \A x \in S : x <= m

SetMin(S) == CHOOSE m \in S : \A x \in S : m <= x

\* INTEGER PRIMARY KEY without the AUTOINCREMENT keyword: one more than the
\* largest id in the table, 1 for an empty table
NextId(table) == IF DOMAIN table = {} THEN 1 ELSE SetMax(DOMAIN table) + 1

Key(k, i) == <<k, i>>

(***************************************************************************)
(* Return values.                                                          *)
(***************************************************************************)
RetNone == [tag |-> "None"]
RetId(i) == [tag |-> "id", idv |-> i]
RetEnt(e) == [tag |-> "entity", ent |-> e]
RetList(rows) == [tag |-> "list", rows |-> rows]
RetExc(name) == [tag |-> "exception", exc |-> name]
\* an exception of class name whose message names the condition why
RetFail(name, why) == [tag |-> "exception", exc |-> name, why |-> why]
RetText(t) == [tag |-> "text", text |-> t]
RetHttp(code) == [tag |-> "http", code |-> code]

\* an optional argument: None, or a value
Absent == [some |-> FALSE]
Given(v) == [some |-> TRUE, v |-> v]

(***************************************************************************)
(* A caller's locals.                                                      *)
(***************************************************************************)
IdleLoc ==
    [pc |-> "idle", op |-> "none", kind |-> "salt", id |-> 0,
     item |-> NoItem, row |-> NoItem, rows |-> EmptyMap, todo |-> {},
     ret |-> RetNone]

Call(op, k, i, item, first) ==
    [IdleLoc EXCEPT !.pc = first, !.op = op, !.kind = k, !.id = i, !.item = item]

CallAdd(k, item) == Call("add", k, 0, item, "add_commit")
CallGet(k, i) == Call("get", k, i, NoItem, "get_cache")
CallUpdate(k, i, item) == Call("update", k, i, item, "upd_query")
CallDelete(k, i) == Call("delete", k, i, NoItem, "del_query")
CallGetAll(k) == Call("get_all", k, 0, NoItem, "ga_query")
CallDeleteAll == Call("delete_all", "salt", 0, NoItem, "da_commit")
CallFlush == Call("flush_cache", "salt", 0, NoItem, "fc_flush")

Final == {"done", "raised"}

\* the steps that are one call to Redis
CachePcs == {"add_cache", "get_cache", "get_fill", "upd_cache", "del_cache",
             "ga_fill", "da_flush", "fc_flush"}

Raise(g, l, name) ==
    [g |-> g, l |-> [l EXCEPT !.pc = "raised", !.ret = RetExc(name)]]

Return(g, l, r) ==
    [g |-> g, l |-> [l EXCEPT !.pc = "done", !.ret = r]]

Goto(g, l, pc) == [g |-> g, l |-> [l EXCEPT !.pc = pc]]

StorePut(g, k, i, fields) ==
    [g EXCEPT !.store = [@ EXCEPT ![k] = Put(@, i, fields)]]

StoreDel(g, k, i) ==
    [g EXCEPT !.store = [@ EXCEPT ![k] = Remove(@, i)]]

\* redis.hset(f"<kind>:<id>", mapping=entity.to_dict())
CacheHset(g, k, i, ent) ==
    [g EXCEPT !.cache = Put(@, Key(k, i), RedisEncode(ToDict(ent)))]

CacheDel(g, k, i) == [g EXCEPT !.cache = Remove(@, Key(k, i))]

(***************************************************************************)
(* add(item): insert and commit, refresh the object, then HSET.            *)
(***************************************************************************)
\* faulty variant of AddCommitStep: the cache written ahead of the insert
AddCacheBeforeCommit(g, l, sok) ==
    IF ~sok THEN Raise(g, l, "StoreError")
    ELSE LET i == NextId(g.store[l.kind])
         IN  Goto(CacheHset(g, l.kind, i, Entity(i, l.item)), [l EXCEPT !.id = i],
                  "add_refresh")

AddCommitStep(g, l, sok) ==
    IF ~sok THEN Raise(g, l, "StoreError")
    ELSE LET i == NextId(g.store[l.kind])
         IN  Goto(StorePut(g, l.kind, i, l.item), [l EXCEPT !.id = i], "add_refresh")

AddRefreshStep(g, l, sok) ==
    IF ~sok THEN Raise(g, l, "StoreError")
    ELSE IF ~Has(g.store[l.kind], l.id) THEN Raise(g, l, "InvalidRequestError")
    ELSE Goto(g, [l EXCEPT !.row = g.store[l.kind][l.id]], "add_cache")

AddCacheStep(g, l, cok) ==
    IF ~cok THEN Raise(g, l, "CacheError")
    ELSE Return(CacheHset(g, l.kind, l.id, Entity(l.id, l.row)), l, RetId(l.id))

(***************************************************************************)
(* get(index): HGETALL; on a miss query the table and HSET what was found. *)
(***************************************************************************)
GetCacheStep(g, l, cok) ==
    IF ~cok THEN Raise(g, l, "CacheError")
    ELSE IF Has(g.cache, Key(l.kind, l.id))
         THEN Return(g, l, RetEnt(FromDict(g.cache[Key(l.kind, l.id)])))
         ELSE Goto(g, l, "get_store")

\* faulty variant of GetStoreStep: an id the store does not hold is refused
GetStrict(g, l, sok) ==
    IF ~sok THEN Raise(g, l, "StoreError")
    ELSE IF Has(g.store[l.kind], l.id)
         THEN Goto(g, [l EXCEPT !.row = g.store[l.kind][l.id]], "get_fill")
         ELSE Raise(g, l, "LookupError")

GetStoreStep(g, l, sok) ==
    IF ~sok THEN Raise(g, l, "StoreError")
    ELSE IF Has(g.store[l.kind], l.id)
         THEN Goto(g, [l EXCEPT !.row = g.store[l.kind][l.id]], "get_fill")
         ELSE Return(g, l, RetNone)

GetFillStep(g, l, cok) ==
    IF ~cok THEN Raise(g, l, "CacheError")
    ELSE Return(CacheHset(g, l.kind, l.id, Entity(l.id, l.row)), l,
                RetEnt(Entity(l.id, l.row)))

(***************************************************************************)
(* update(index, item): query the row; if there is one, overwrite its      *)
(* columns and commit, then HSET the committed object's to_dict(), whose    *)
(* attributes the commit expired and which are therefore loaded again.     *)
(***************************************************************************)
\* faulty variant of UpdQueryStep: the row it does not find is inserted
UpdUpsert(g, l, sok) ==
    IF ~sok THEN Raise(g, l, "StoreError")
    ELSE IF Has(g.store[l.kind], l.id)
         THEN Goto(g, [l EXCEPT !.row = g.store[l.kind][l.id]], "upd_commit")
         ELSE Return(StorePut(g, l.kind, l.id, l.item), l, RetNone)

UpdQueryStep(g, l, sok) ==
    IF ~sok THEN Raise(g, l, "StoreError")
    ELSE IF Has(g.store[l.kind], l.id)
         THEN Goto(g, [l EXCEPT !.row = g.store[l.kind][l.id]], "upd_commit")
         ELSE Return(g, l, RetNone)

\* faulty variant of UpdCommitStep: the columns are not written
UpdNoCommit(g, l, sok) ==
    IF ~sok THEN Raise(g, l, "StoreError")
    ELSE IF ~Has(g.store[l.kind], l.id) THEN Raise(g, l, "StaleDataError")
    ELSE Goto(g, l, "upd_reload")

UpdCommitStep(g, l, sok) ==
    IF ~sok THEN Raise(g, l, "StoreError")
    ELSE IF ~Has(g.store[l.kind], l.id) THEN Raise(g, l, "StaleDataError")
    ELSE Goto(StorePut(g, l.kind, l.id, l.item), l, "upd_reload")

UpdReloadStep(g, l, sok) ==
    IF ~sok THEN Raise(g, l, "StoreError")
    ELSE IF ~Has(g.store[l.kind], l.id) THEN Raise(g, l, "ObjectDeletedError")
    ELSE Goto(g, [l EXCEPT !.row = g.store[l.kind][l.id]], "upd_cache")

\* faulty variant of UpdCacheStep: the cache entry is left as it was
UpdSkipCache(g, l, cok) ==
    IF ~cok THEN Raise(g, l, "CacheError")
    ELSE Return(g, l, RetNone)

UpdCacheStep(g, l, cok) ==
    IF ~cok THEN Raise(g, l, "CacheError")
    ELSE Return(CacheHset(g, l.kind, l.id, Entity(l.id, l.row)), l, RetNone)

(***************************************************************************)
(* delete(index): query the row, delete and commit if there is one, then   *)
(* DEL the key whether or not there was.                                   *)
(***************************************************************************)
\* faulty variant of DelQueryStep: an id it does not find is refused
DelStrict(g, l, sok) ==
    IF ~sok THEN Raise(g, l, "StoreError")
    ELSE IF Has(g.store[l.kind], l.id)
         THEN Goto(g, [l EXCEPT !.row = g.store[l.kind][l.id]], "del_commit")
         ELSE Raise(g, l, "KeyError")

DelQueryStep(g, l, sok) ==
    IF ~sok THEN Raise(g, l, "StoreError")
    ELSE IF Has(g.store[l.kind], l.id)
         THEN Goto(g, [l EXCEPT !.row = g.store[l.kind][l.id]], "del_commit")
         ELSE Goto(g, l, "del_cache")

\* faulty variant of DelCommitStep: the row is left in place
DelNoCommit(g, l, sok) ==
    IF ~sok THEN Raise(g, l, "StoreError")
    ELSE Goto(g, l, "del_cache")

DelCommitStep(g, l, sok) ==
    IF ~sok THEN Raise(g, l, "StoreError")
    ELSE Goto(StoreDel(g, l.kind, l.id), l, "del_cache")

\* faulty variant of DelCacheStep: the key is left in the cache
DelKeepsKey(g, l, cok) ==
    IF ~cok THEN Raise(g, l, "CacheError")
    ELSE Return(g, l, RetNone)

DelCacheStep(g, l, cok) ==
    IF ~cok THEN Raise(g, l, "CacheError")
    ELSE Return(CacheDel(g, l.kind, l.id), l, RetNone)

(***************************************************************************)
(* get_all(): query every row of the table, then HSET them one by one.     *)
(***************************************************************************)
\* faulty variant of GaQueryStep: the list is taken from the keys of the cache
GaServeCached(g, l, sok) ==
    IF ~sok THEN Raise(g, l, "StoreError")
    ELSE LET rows == [i \in {j \in Ids : Has(g.cache, Key(l.kind, j))} |->
                         g.cache[Key(l.kind, i)].data]
         IN  IF DOMAIN rows = {}
             THEN Return(g, [l EXCEPT !.rows = rows], RetList(rows))
             ELSE Goto(g, [l EXCEPT !.rows = rows, !.todo = DOMAIN rows], "ga_fill")

GaQueryStep(g, l, sok) ==
    IF ~sok THEN Raise(g, l, "StoreError")
    ELSE LET rows == g.store[l.kind]
         IN  IF DOMAIN rows = {}
             THEN Return(g, [l EXCEPT !.rows = rows], RetList(rows))
             ELSE Goto(g, [l EXCEPT !.rows = rows, !.todo = DOMAIN rows], "ga_fill")

GaFillStep(g, l, cok) ==
    IF ~cok THEN Raise(g, l, "CacheError")
    ELSE LET j == SetMin(l.todo)
             g2 == CacheHset(g, l.kind, j, Entity(j, l.rows[j]))
             l2 == [l EXCEPT !.todo = @ \ {j}]
         IN  IF l2.todo = {} THEN Return(g2, l2, RetList(l.rows))
             ELSE Goto(g2, l2, "ga_fill")

(***************************************************************************)
(* SaltRepository.delete_all(): delete every salt row, commit, FLUSHDB.    *)
(* CacheManager.flush_cache(): FLUSHDB.  Both empty the whole database the *)
(* kinds share.                                                            *)
(***************************************************************************)
DaCommitStep(g, l, sok) ==
    IF ~sok THEN Raise(g, l, "StoreError")
    ELSE Goto([g EXCEPT !.store = [@ EXCEPT ![l.kind] = EmptyMap]], l, "da_flush")

DaFlushStep(g, l, cok) ==
    IF ~cok THEN Raise(g, l, "CacheError")
    ELSE Return([g EXCEPT !.cache = EmptyMap], l, RetNone)

FcFlushStep(g, l, cok) ==
    IF ~cok THEN Raise(g, l, "CacheError")
    ELSE Return([g EXCEPT !.cache = EmptyMap], l, RetNone)

\* one step of the operation l is in; sok / cok: the store / the cache
\* answers this call
RepoStep(g, l, sok, cok) ==
    CASE l.pc = "add_commit" -> AddCommitStep(g, l, sok)
      [] l.pc = "add_refresh" -> AddRefreshStep(g, l, sok)
      [] l.pc = "add_cache" -> AddCacheStep(g, l, cok)
      [] l.pc = "get_cache" -> GetCacheStep(g, l, cok)
      [] l.pc = "get_store" -> GetStoreStep(g, l, sok)
      [] l.pc = "get_fill" -> GetFillStep(g, l, cok)
      [] l.pc = "upd_query" -> UpdQueryStep(g, l, sok)
      [] l.pc = "upd_commit" -> UpdCommitStep(g, l, sok)
      [] l.pc = "upd_reload" -> UpdReloadStep(g, l, sok)
      [] l.pc = "upd_cache" -> UpdCacheStep(g, l, cok)
      [] l.pc = "del_query" -> DelQueryStep(g, l, sok)
      [] l.pc = "del_commit" -> DelCommitStep(g, l, sok)
      [] l.pc = "del_cache" -> DelCacheStep(g, l, cok)
      [] l.pc = "ga_query" -> GaQueryStep(g, l, sok)
      [] l.pc = "ga_fill" -> GaFillStep(g, l, cok)
      [] l.pc = "da_commit" -> DaCommitStep(g, l, sok)
      [] l.pc = "da_flush" -> DaFlushStep(g, l, cok)
      [] l.pc = "fc_flush" -> FcFlushStep(g, l, cok)
      [] OTHER -> [g |-> g, l |-> l]

(***************************************************************************)
(* A whole call, as its caller sees it when nothing else runs: the steps   *)
(* taken in turn until the operation returns or raises.  sok: the store    *)
(* answers during the call.  fuel: the number of cache calls that are      *)
(* still answered before the cache becomes unreachable (-1: all of them).  *)
(***************************************************************************)
CacheAnswers(fuel) == fuel # 0

Burn(fuel) == IF fuel > 0 THEN fuel - 1 ELSE fuel

RECURSIVE RepoRun(_, _, _, _)
Resume(r, sok, fuel) == RepoRun(r.g, r.l, sok, fuel)

RepoRun(g, l, sok, fuel) ==
    IF l.pc \in Final THEN [g |-> g, l |-> l, fuel |-> fuel]
    ELSE Resume(RepoStep(g, l, sok, CacheAnswers(fuel)), sok,
                IF l.pc \in CachePcs THEN Burn(fuel) ELSE fuel)

(***************************************************************************)
(* Cipher strategies.  A key is the sequence of its characters; the        *)
(* strategy encodes it, cuts it to the method's key length and fills it up *)
(* with the byte of "0".  For the services a token stands for the          *)
(* ciphertext of pt under the key bytes; only ChaCha20 draws a nonce.      *)
(***************************************************************************)
Strategies == {"aes128", "aes256", "chacha20"}

MethodNames == {"aes128", "AES256", "chacha20", "rot13"}

\* str.lower() on the method names of the model
Lower(m) == IF m = "AES256" THEN "aes256" ELSE m

\* str.encode('utf-8') on the characters of the model: a text is the
\* sequence of its characters ("eacute" is the two-byte letter e with acute
\* accent), a byte a number below 256
Utf8(c) ==
    CASE c = "0" -> <<48>>
      [] c = "1" -> <<49>>
      [] c = "2" -> <<50>>
      [] c = "h" -> <<104>>
      [] c = "i" -> <<105>>
      [] c = "k" -> <<107>>
      [] c = "x" -> <<120>>
      [] c = "eacute" -> <<195, 169>>
      [] OTHER -> <<63>>

RECURSIVE Encode(_)
Encode(t) == IF t = <<>> THEN <<>> ELSE Utf8(Head(t)) \o Encode(Tail(t))

KeyLen(m) == IF m = "aes128" THEN 16 ELSE 32

\* the byte b'0' that ljust fills a short key with
Filler == 48

\* bytes[:n].ljust(n, b'0')
Resize(bytes, n) == [j \in 1..n |-> IF j <= Len(bytes) THEN bytes[j] ELSE Filler]

\* a key derived by digesting the key string: here its length in front
KeyBytesDigest(m, key) == Resize(<<Len(Encode(key))>> \o Encode(key), KeyLen(m))

KeyBytes(m, key) == Resize(Encode(key), KeyLen(m))

Encrypt(m, key, pt, nonce) ==
    [alg |-> m, key |-> KeyBytes(m, key), pt |-> pt,
     nonce |-> IF m = "chacha20" THEN nonce ELSE 0]


(***************************************************************************)
(* The strategies at the level of bytes.  A plain byte is a number; a      *)
(* ciphertext byte is not computed but named: byte v of the AES block b    *)
(* under key k, or byte v of the ChaCha20 stream under key k and nonce b   *)
(* combined with the plain byte p.  A token is a sequence of characters;   *)
(* the two hex digits of a ciphertext byte are named after the byte.       *)
(***************************************************************************)
BlockSize == 16

Plain(n) == [kind |-> "plain", v |-> n, k |-> <<>>, b |-> <<>>, p |-> 0]

AesByte(v, k, b) == [kind |-> "aes", v |-> v, k |-> k, b |-> b, p |-> 0]

ChaByte(v, k, nonce, p) == [kind |-> "cha", v |-> v, k |-> k, b |-> nonce, p |-> p]

Char(c) == [half |-> "char", c |-> c, x |-> Plain(0)]

Nibble(half, x) == [half |-> half, c |-> "", x |-> x]

HexDigits == <<"0", "1", "2", "3", "4", "5", "6", "7", "8", "9",
               "a", "b", "c", "d", "e", "f">>

\* the value of a hex digit, 16 for any other character
DigitValue(c) ==
    IF \E d \in 1..16 : HexDigits[d] = c
    THEN (CHOOSE d \in 1..16 : HexDigits[d] = c) - 1
    ELSE 16

\* bytes.hex(): two characters for every byte
HexHigh(x) ==
    IF x.kind = "plain" THEN Char(HexDigits[(x.v \div 16) + 1]) ELSE Nibble("high", x)

HexLow(x) ==
    IF x.kind = "plain" THEN Char(HexDigits[(x.v % 16) + 1]) ELSE Nibble("low", x)

Hex(bytes) ==
    [j \in 1..(2 * Len(bytes)) |->
        IF j % 2 = 1 THEN HexHigh(bytes[(j + 1) \div 2]) ELSE HexLow(bytes[j \div 2])]

\* two characters are the hex digits of one byte
IsHexPair(a, b) ==
    \/ a.half = "char" /\ b.half = "char" /\ DigitValue(a.c) < 16 /\ DigitValue(b.c) < 16
    \/ a.half = "high" /\ b.half = "low" /\ a.x = b.x

UnhexPair(a, b) ==
    IF a.half = "char" THEN Plain(16 * DigitValue(a.c) + DigitValue(b.c)) ELSE a.x

\* bytes.fromhex(): refused for an odd length or a character that is no digit
IsHex(s) ==
    /\ Len(s) % 2 = 0
    /\ \A j \in 1..(Len(s) \div 2) : IsHexPair(s[2 * j - 1], s[2 * j])

FromHex(s) == [j \in 1..(Len(s) \div 2) |-> UnhexPair(s[2 * j - 1], s[2 * j])]

\* the plain bytes as bytes of a token, and back
Plains(bytes) == [j \in 1..Len(bytes) |-> Plain(bytes[j])]

\* Crypto.Util.Padding.pad and unpad (pkcs7)
PadLen(n) == BlockSize - (n % BlockSize)

Pad(bytes) == bytes \o [j \in 1..PadLen(Len(bytes)) |-> PadLen(Len(bytes))]

IsPadded(bytes) ==
    /\ Len(bytes) > 0
    /\ Len(bytes) % BlockSize = 0
    /\ bytes[Len(bytes)] \in 1..BlockSize
    /\ \A j \in (Len(bytes) - bytes[Len(bytes)] + 1)..Len(bytes) :
           bytes[j] = bytes[Len(bytes)]

Unpad(bytes) == SubSeq(bytes, 1, Len(bytes) - bytes[Len(bytes)])

\* bytes.decode('utf-8') on the bytes of the model's characters
IsAscii(n) == n \in {48, 49, 50, 104, 105, 107, 120}

AsciiChar(n) ==
    CASE n = 48 -> "0"
      [] n = 49 -> "1"
      [] n = 50 -> "2"
      [] n = 104 -> "h"
      [] n = 105 -> "i"
      [] n = 107 -> "k"
      [] OTHER -> "x"

RECURSIVE IsUtf8(_)
IsUtf8(bytes) ==
    IF bytes = <<>> THEN TRUE
    ELSE IF IsAscii(bytes[1]) THEN IsUtf8(Tail(bytes))
    ELSE IF Len(bytes) >= 2 /\ bytes[1] = 195 /\ bytes[2] = 169
    THEN IsUtf8(Tail(Tail(bytes)))
    ELSE FALSE

RECURSIVE Decode(_)
Decode(bytes) ==
    IF bytes = <<>> THEN <<>>
    ELSE IF bytes[1] = 195 THEN <<"eacute">> \o Decode(Tail(Tail(bytes)))
    ELSE <<AsciiChar(bytes[1])>> \o Decode(Tail(bytes))


\* what a strategy's decrypt gives: the text, or the exception it raises
Text(t) == [ok |-> TRUE, text |-> t, why |-> ""]

Raised(why) == [ok |-> FALSE, text |-> <<>>, why |-> why]

\* the texts a decryption can produce in the model
H(n) == [j \in 1..n |-> "h"]

Texts == {<<>>, <<"h", "i">>, <<"eacute">>, H(16), H(32)}

\* block j of a sequence of bytes
Block(bytes, j) == SubSeq(bytes, BlockSize * (j - 1) + 1, BlockSize * j)

\* AES.new(key_bytes, AES.MODE_ECB).encrypt: every block on its own, a
\* function of the key bytes and of the block only
EcbEncrypt(kb, padded) ==
    [j \in 1..Len(padded) |->
        AesByte(((j - 1) % BlockSize) + 1, kb, Block(padded, ((j - 1) \div BlockSize) + 1))]

\* AESxxxStrategy.encrypt: pad, encrypt, hex
aes_encrypt(m, key, text) == Hex(EcbEncrypt(KeyBytes(m, key), Pad(Encode(text))))

\* a ciphertext block produced under these very key bytes
OwnBlock(kb, blk) ==
    \A j \in 1..BlockSize :
        /\ blk[j].kind = "aes"
        /\ blk[j].v = j
        /\ blk[j].k = kb
        /\ blk[j].b = blk[1].b

OwnBlocks(kb, ct) == \A j \in 1..(Len(ct) \div BlockSize) : OwnBlock(kb, Block(ct, j))

\* AES.new(key_bytes, AES.MODE_ECB).decrypt of blocks produced under the
\* same key bytes: the blocks that were encrypted
EcbDecrypt(ct) == [j \in 1..Len(ct) |-> ct[j].b[((j - 1) % BlockSize) + 1]]

\* a decrypt that decodes the decrypted bytes with their padding
DecodedPadded(bytes) ==
    IF ~IsUtf8(bytes) THEN {Raised("UnicodeDecodeError")} ELSE {Text(Decode(bytes))}

\* unpad and decode of the decrypted bytes
Unpadded(bytes) ==
    IF ~IsPadded(bytes) THEN {Raised("ValueError")}
    ELSE IF ~IsUtf8(Unpad(bytes)) THEN {Raised("UnicodeDecodeError")}
    ELSE {Text(Decode(Unpad(bytes)))}

\* the blocks of another key decrypt to bytes the model does not compute:
\* the padding or the decoding is refused, or some text of a fitting length
\* comes out
AesGarbage(n) ==
    {Raised("ValueError"), Raised("UnicodeDecodeError")}
        \cup {Text(t) : t \in {u \in Texts : Len(Encode(u)) \in (n - BlockSize)..(n - 1)}}

AesDecrypted(kb, ct) ==
    IF Len(ct) = 0 \/ Len(ct) % BlockSize # 0 THEN {Raised("ValueError")}
    ELSE IF OwnBlocks(kb, ct) THEN Unpadded(EcbDecrypt(ct))
    ELSE AesGarbage(Len(ct))

\* AESxxxStrategy.decrypt: unhex, decrypt, unpad, decode
aes_decrypt(m, key, token) ==
    IF ~IsHex(token) THEN {Raised("ValueError")}
    ELSE AesDecrypted(KeyBytes(m, key), FromHex(token))

\* ChaCha20.new(key=...) draws a nonce of eight random bytes
NonceLen == 8

NonceBytes(nonce) == [j \in 1..NonceLen |-> nonce]

\* the stream cipher: byte j depends on key, nonce, position and plain byte
StreamEncrypt(kb, nb, bytes) == [j \in 1..Len(bytes) |-> ChaByte(j, kb, nb, bytes[j])]

Colon == Char(":")

\* ChaCha20Strategy.encrypt: hex(nonce) + ":" + hex(ciphertext)
chacha20_encrypt(key, text, nonce) ==
    Hex(Plains(NonceBytes(nonce))) \o <<Colon>>
        \o Hex(StreamEncrypt(KeyBytes("chacha20", key), NonceBytes(nonce), Encode(text)))

\* str.split(":") into exactly two parts
Colons(token) == {j \in 1..Len(token) : token[j] = Colon}

ColonAt(token) == CHOOSE j \in Colons(token) : TRUE

\* the nonce read back from the token
PlainValues(bytes) == [j \in 1..Len(bytes) |-> bytes[j].v]

IsNonce(bytes) == Len(bytes) = NonceLen /\ \A j \in 1..Len(bytes) : bytes[j].kind = "plain"

OwnStream(kb, nb, ct) ==
    \A j \in 1..Len(ct) :
        ct[j].kind = "cha" /\ ct[j].v = j /\ ct[j].k = kb /\ ct[j].b = nb

StreamDecrypt(ct) == [j \in 1..Len(ct) |-> ct[j].p]

Decoded(bytes) ==
    IF IsUtf8(bytes) THEN {Text(Decode(bytes))} ELSE {Raised("UnicodeDecodeError")}

\* a stream of another key or nonce gives bytes the model does not compute,
\* as many as the ciphertext has
StreamGarbage(n) ==
    {Raised("UnicodeDecodeError")} \cup {Text(t) : t \in {u \in Texts : Len(Encode(u)) = n}}

StreamDecrypted(kb, nb, ct) ==
    IF ~IsNonce(nb) THEN {Raised("ValueError")}
    ELSE IF OwnStream(kb, PlainValues(nb), ct) THEN Decoded(StreamDecrypt(ct))
    ELSE StreamGarbage(Len(ct))

ChaSplit(key, left, right) ==
    IF ~IsHex(left) \/ ~IsHex(right) THEN {Raised("ValueError")}
    ELSE StreamDecrypted(KeyBytes("chacha20", key), FromHex(left), FromHex(right))

\* ChaCha20Strategy.decrypt: split, unhex both parts, decrypt, decode
chacha20_decrypt(key, token) ==
    IF Cardinality(Colons(token)) # 1 THEN {Raised("ValueError")}
    ELSE ChaSplit(key, SubSeq(token, 1, ColonAt(token) - 1),
                  SubSeq(token, ColonAt(token) + 1, Len(token)))

\* an encrypt that puts fresh random bytes in front of every AES token
StrategyEncryptSeeded(m, key, text, nonce) ==
    IF m = "chacha20" THEN chacha20_encrypt(key, text, nonce)
    ELSE Hex(Plains(NonceBytes(nonce))) \o aes_encrypt(m, key, text)

\* Encryptor.encrypt: the strategy of the lower-cased method name
StrategyEncrypt(m, key, text, nonce) ==
    IF m = "chacha20" THEN chacha20_encrypt(key, text, nonce) ELSE aes_encrypt(m, key, text)

\* the decrypt method of the strategy of that name
StrategyDecrypt(m, key, token) ==
    IF m = "chacha20" THEN chacha20_decrypt(key, token) ELSE aes_decrypt(m, key, token)

Names == {<<"d", "a">>, <<"D", "b">>}
Plaintexts == {"", "hi"}
Keys == {<<"1">>}
Nonces == {1}

(***************************************************************************)
(* Service calls: each runs its repository calls to completion inside its  *)
(* try block and maps what they raise as its except clauses do.            *)
(***************************************************************************)
RetBool(b) == [tag |-> "bool", b |-> b]
RetDict(map) == [tag |-> "dict", map |-> map]

Outcome(g, fuel, pc, ret) == [g |-> g, fuel |-> fuel, pc |-> pc, ret |-> ret]

\* Every call below hands what its repository call left to the operator
\* that continues with it.
Failed(o, name, why) == Outcome(o.g, o.fuel, "raised", RetFail(name, why))
Refused(o) == Outcome(o.g, o.fuel, "done", RetBool(FALSE))

\* SaltService.get_salt / CipherService.get_cipher
GotRecord(r) ==
    IF r.l.pc = "raised" THEN Outcome(r.g, r.fuel, "raised", RetExc("Exception"))
    ELSE IF r.l.ret = RetNone THEN Outcome(r.g, r.fuel, "done", RetNone)
    ELSE Outcome(r.g, r.fuel, "done", RetDict(ToDict(r.l.ret.ent)))

get_record(g, k, i, sok, fuel) == GotRecord(RepoRun(g, CallGet(k, i), sok, fuel))

\* SaltService.delete_salt / CipherService.delete_cipher
Deleted(d) == Outcome(d.g, d.fuel, "done", RetBool(d.l.pc = "done"))

\* faulty variant of DeleteFound: the repository delete is called whether or
\* not the record was found
DeleteUnchecked(r, k, i, sok) ==
    IF r.l.pc = "raised" THEN Refused(r)
    ELSE Deleted(RepoRun(r.g, CallDelete(k, i), sok, r.fuel))

DeleteFound(r, k, i, sok) ==
    IF r.l.pc = "raised" \/ r.l.ret = RetNone THEN Refused(r)
    ELSE Deleted(RepoRun(r.g, CallDelete(k, i), sok, r.fuel))

delete_record(g, k, i, sok, fuel) ==
    DeleteFound(RepoRun(g, CallGet(k, i), sok, fuel), k, i, sok)

\* CipherService.create_cipher
Added(r) ==
    IF r.l.pc = "raised"
    THEN Outcome(r.g, r.fuel, "raised", RetExc("Exception"))
    ELSE Outcome(r.g, r.fuel, "done", r.l.ret)


\* faulty variant of create_cipher: the record is added before the method
\* is looked up
CreateThenValidate(g, name, pt, method, key, nonce, sok, fuel) ==
    IF Lower(method) \notin Strategies
    THEN Failed(RepoRun(g, CallAdd("cipher",
                                   [name |-> name, encrypted_cipher |-> pt,
                                    method |-> method]),
                        sok, fuel),
                "ValueError", "UnsupportedMethod")
    ELSE Added(RepoRun(g, CallAdd("cipher",
                                  [name |-> name,
                                   encrypted_cipher |->
                                       Encrypt(Lower(method), key, pt, nonce),
                                   method |-> method]),
                       sok, fuel))

create_cipher(g, name, pt, method, key, nonce, sok, fuel) ==
    IF Lower(method) \notin Strategies
    THEN Outcome(g, fuel, "raised", RetExc("ValueError"))
    ELSE Added(RepoRun(g, CallAdd("cipher",
                                  [name |-> name,
                                   encrypted_cipher |->
                                       Encrypt(Lower(method), key, pt, nonce),
                                   method |-> method]),
                       sok, fuel))

(***************************************************************************)
(* Text: str.lower() and the operator `in` on the characters of the model. *)
(***************************************************************************)
LowerChar(c) ==
    CASE c = "D" -> "d"
      [] c = "A" -> "a"
      [] c = "B" -> "b"
      [] OTHER -> c

LowerText(t) == [j \in 1..Len(t) |-> LowerChar(t[j])]

Contains(t, sub) ==
    \E k \in 0..(Len(t) - Len(sub)) : SubSeq(t, k + 1, k + Len(sub)) = sub

\* str(n) for the ids of the model
DecimalString(n) ==
    CASE n = 1 -> <<"1">>
      [] n = 2 -> <<"2">>
      [] n = 3 -> <<"3">>
      [] OTHER -> <<"9">>

\* a table restricted to some of its ids
Restrict(rows, S) == [i \in S |-> rows[i]]

(***************************************************************************)
(* Decryption.  The strategies' decrypt undoes encrypt under the same key  *)
(* bytes; the Decryptor that selects the strategy is not among the         *)
(* sources, it is taken to select as the Encryptor does.                   *)
(***************************************************************************)
DecryptorKnows(method) == Lower(method) \in Strategies

Decrypt(m, key, token) ==
    IF token.alg = m /\ token.key = KeyBytes(m, key)
    THEN [ok |-> TRUE, pt |-> token.pt]
    ELSE [ok |-> FALSE]

(***************************************************************************)
(* Cipher service: listing, search, decryption, the first-salt protocol.   *)
(***************************************************************************)
\* CipherService.list_all_ciphers
Listed(r) ==
    IF r.l.pc = "raised" THEN Failed(r, "Exception", "repository")
    ELSE Outcome(r.g, r.fuel, "done",
                 RetList([i \in DOMAIN r.l.ret.rows |->
                              ToDict(Entity(i, r.l.ret.rows[i]))]))

list_all_ciphers(g, sok, fuel) == Listed(RepoRun(g, CallGetAll("cipher"), sok, fuel))

\* CipherService.search_ciphers_by_name

\* faulty variant of Matching: the names are compared as they are written
MatchingCaseSensitive(a, pattern) ==
    IF a.pc = "raised" THEN Failed(a, "Exception", "repository")
    ELSE Outcome(a.g, a.fuel, "done",
                 RetList(Restrict(a.ret.rows,
                                  {i \in DOMAIN a.ret.rows :
                                      Contains(a.ret.rows[i].data.name, pattern)})))

Matching(a, pattern) ==
    IF a.pc = "raised" THEN Failed(a, "Exception", "repository")
    ELSE Outcome(a.g, a.fuel, "done",
                 RetList(Restrict(a.ret.rows,
                                  {i \in DOMAIN a.ret.rows :
                                      Contains(LowerText(a.ret.rows[i].data.name),
                                               LowerText(pattern))})))

search_ciphers_by_name(g, pattern, sok, fuel) ==
    Matching(list_all_ciphers(g, sok, fuel), pattern)

\* CipherService.decrypt_cipher
Decrypted(r, d) ==
    IF d.ok THEN Outcome(r.g, r.fuel, "done", RetText(d.pt))
    ELSE Failed(r, "ValueError", "CryptoFormatError")


DecryptGot(r, key) ==
    IF r.l.pc = "raised" THEN Failed(r, "Exception", "repository")
    ELSE IF r.l.ret = RetNone THEN Failed(r, "ValueError", "CipherNotFound")
    ELSE IF ~DecryptorKnows(r.l.ret.ent.data.method)
    THEN Failed(r, "ValueError", "UnsupportedMethod")
    ELSE Decrypted(r, Decrypt(Lower(r.l.ret.ent.data.method), key,
                              r.l.ret.ent.data.encrypted_cipher))

decrypt_cipher(g, i, key, sok, fuel) ==
    DecryptGot(RepoRun(g, CallGet("cipher", i), sok, fuel), key)

FirstSaltId == 1

\* CipherService.create_cipher_with_first_salt_key
FirstResult(info, i, cipher_key, method, salt_info, name) ==
    IF info.pc = "raised" THEN Failed(info, "Exception", "repository")
    ELSE Outcome(info.g, info.fuel, "done",
                 RetDict([cipher_id |-> i,
                          salt_id_used |-> FirstSaltId,
                          cipher_key_used |-> cipher_key,
                          cipher_method |-> method,
                          cipher_info |-> info.ret,
                          salt_info |-> salt_info,
                          name |-> name]))

FirstCreated(c, cipher_key, method, salt_info, name, sok) ==
    IF c.pc = "raised"
    THEN IF c.ret = RetExc("ValueError")
         THEN Failed(c, "ValueError", "UnsupportedMethod")
         ELSE Failed(c, "Exception", "repository")
    ELSE FirstResult(get_record(c.g, "cipher", c.ret.idv, sok, c.fuel),
                     c.ret.idv, cipher_key, method, salt_info, name)



\* faulty variant of FirstGated: the key is taken from the value of the
\* first salt
FirstGatedSaltKey(s, name, pt, method, nonce, sok) ==
    IF s.pc = "raised" THEN Failed(s, "Exception", "repository")
    ELSE IF s.ret = RetNone THEN Failed(s, "ValueError", "FirstSaltMissing")
    ELSE FirstCreated(create_cipher(s.g, name, pt, method, <<s.ret.map.data.salt>>,
                                    nonce, sok, s.fuel),
                      <<s.ret.map.data.salt>>, method, s.ret, name, sok)

\* faulty variant of FirstGated: the cipher is created whether or not the
\* first salt was found
FirstUngated(s, name, pt, method, nonce, sok) ==
    IF s.pc = "raised" THEN Failed(s, "Exception", "repository")
    ELSE FirstCreated(create_cipher(s.g, name, pt, method, DecimalString(FirstSaltId),
                                    nonce, sok, s.fuel),
                      DecimalString(FirstSaltId), method, s.ret, name, sok)

FirstGated(s, name, pt, method, nonce, sok) ==
    IF s.pc = "raised" THEN Failed(s, "Exception", "repository")
    ELSE IF s.ret = RetNone THEN Failed(s, "ValueError", "FirstSaltMissing")
    ELSE FirstCreated(create_cipher(s.g, name, pt, method, DecimalString(FirstSaltId),
                                    nonce, sok, s.fuel),
                      DecimalString(FirstSaltId), method, s.ret, name, sok)

\* faulty variant of create_cipher_with_first_salt_key: the salt is used up
SaltDropped(o, d) == Outcome(d.g, d.fuel, o.pc, o.ret)

FirstConsumesSalt(g, name, pt, method, nonce, sok, fuel) ==
    LET o == FirstGated(get_record(g, "salt", FirstSaltId, sok, fuel), name, pt, method,
                        nonce, sok)
    IN  SaltDropped(o, delete_record(o.g, "salt", FirstSaltId, sok, o.fuel))

create_cipher_with_first_salt_key(g, name, pt, method, nonce, sok, fuel) ==
    FirstGated(get_record(g, "salt", FirstSaltId, sok, fuel), name, pt, method, nonce, sok)

\* CipherService.decrypt_cipher_with_first_salt_key
Rewrapped(d) == IF d.pc = "raised" THEN Failed(d, "Exception", d.ret.why) ELSE d



\* faulty variant of DecryptGated: the first salt is not looked at again
DecryptUngated(s, i, sok) ==
    IF s.pc = "raised" THEN Failed(s, "Exception", "repository")
    ELSE Rewrapped(decrypt_cipher(s.g, i, DecimalString(FirstSaltId), sok, s.fuel))

\* faulty variant of DecryptGated: the key is taken from the value of the
\* first salt
DecryptGatedSaltKey(s, i, sok) ==
    IF s.pc = "raised" THEN Failed(s, "Exception", "repository")
    ELSE IF s.ret = RetNone THEN Failed(s, "Exception", "FirstSaltMissing")
    ELSE Rewrapped(decrypt_cipher(s.g, i, <<s.ret.map.data.salt>>, sok, s.fuel))

\* faulty variant of DecryptGated: the cipher is loaded and decrypted before
\* the first salt is asked for
SaltAfter(s, d) ==
    IF d.pc = "raised" THEN Failed(d, "Exception", d.ret.why)
    ELSE IF s.ret = RetNone THEN Failed(d, "Exception", "FirstSaltMissing")
    ELSE d

DecryptThenGate(s, i, sok) ==
    IF s.pc = "raised" THEN Failed(s, "Exception", "repository")
    ELSE SaltAfter(s, decrypt_cipher(s.g, i, DecimalString(FirstSaltId), sok, s.fuel))

DecryptGated(s, i, sok) ==
    IF s.pc = "raised" THEN Failed(s, "Exception", "repository")
    ELSE IF s.ret = RetNone THEN Failed(s, "Exception", "FirstSaltMissing")
    ELSE Rewrapped(decrypt_cipher(s.g, i, DecimalString(FirstSaltId), sok, s.fuel))

decrypt_cipher_with_first_salt_key(g, i, sok, fuel) ==
    DecryptGated(get_record(g, "salt", FirstSaltId, sok, fuel), i, sok)

\* CipherService.decrypt_cipher_by_name_with_first_salt_key
NamedResult(d, cipher, cipher_name) ==
    IF d.pc = "raised" THEN Failed(d, "Exception", d.ret.why)
    ELSE Outcome(d.g, d.fuel, "done",
                 RetDict([decrypted_text |-> d.ret.text,
                          cipher_info |-> cipher,
                          cipher_id |-> cipher.id,
                          cipher_name |-> cipher.data.name,
                          method |-> cipher.data.method,
                          search_term |-> cipher_name,
                          matches_found |-> 1]))

DecryptSingle(m, cipher, cipher_name, sok) ==
    IF cipher.data.name # cipher_name THEN Failed(m, "ValueError", "NameMismatch")
    ELSE NamedResult(decrypt_cipher_with_first_salt_key(m.g, cipher.id.v, sok, m.fuel),
                     cipher, cipher_name)

DecryptMatching(m, cipher_name, sok) ==
    IF m.pc = "raised" THEN Failed(m, "Exception", "repository")
    ELSE IF DOMAIN m.ret.rows = {} THEN Failed(m, "ValueError", "CipherNotFound")
    ELSE IF Cardinality(DOMAIN m.ret.rows) > 1
    THEN Failed(m, "ValueError", "AmbiguousName")
    ELSE DecryptSingle(m, m.ret.rows[SetMin(DOMAIN m.ret.rows)], cipher_name, sok)

decrypt_cipher_by_name_with_first_salt_key(g, cipher_name, sok, fuel) ==
    DecryptMatching(search_ciphers_by_name(g, cipher_name, sok, fuel), cipher_name, sok)

\* kasa-api delete_cipher_by_name (the name taken from the URL is not empty)
Answered(d) ==
    Outcome(d.g, d.fuel, "done",
            IF d.ret = RetBool(TRUE) THEN RetHttp(200) ELSE RetHttp(500))

DeleteMatching(m, sok) ==
    IF m.pc = "raised" THEN Outcome(m.g, m.fuel, "done", RetHttp(500))
    ELSE IF DOMAIN m.ret.rows = {} THEN Outcome(m.g, m.fuel, "done", RetHttp(404))
    ELSE IF Cardinality(DOMAIN m.ret.rows) > 1
    THEN Outcome(m.g, m.fuel, "done", RetHttp(400))
    ELSE Answered(delete_record(m.g, "cipher",
                                m.ret.rows[SetMin(DOMAIN m.ret.rows)].id.v, sok, m.fuel))

delete_cipher_by_name(g, cipher_name, sok, fuel) ==
    DeleteMatching(search_ciphers_by_name(g, cipher_name, sok, fuel), sok)

\* Python truth of an optional string: None and "" are false
Truthy(opt) == opt.some /\ opt.v # <<>>

\* CipherService.update_cipher
Updated(u) == Outcome(u.g, u.fuel, "done", RetBool(u.l.pc = "done"))

Reencrypted(d, i, new_name, new_method, key, nonce, sok) ==
    IF d.pc = "raised" THEN Refused(d)
    ELSE IF Lower(new_method) \notin Strategies THEN Refused(d)
    ELSE Updated(RepoRun(d.g,
                         CallUpdate("cipher", i,
                                    [name |-> new_name,
                                     encrypted_cipher |->
                                         Encrypt(Lower(new_method), key, d.ret.text, nonce),
                                     method |-> new_method]),
                         sok, d.fuel))

\* faulty variant of UpdateFound: every update asks for a key
UpdateNeedsKey(r, existing, i, name, plaintext, method, key, nonce, sok) ==
    IF ~Truthy(key) THEN Refused(r)
    ELSE Reencrypted(IF plaintext.some
                     THEN Outcome(r.g, r.fuel, "done", RetText(plaintext.v))
                     ELSE decrypt_cipher(r.g, i, key.v, sok, r.fuel),
                     i,
                     IF name.some THEN name.v ELSE existing.name,
                     IF method.some THEN method.v ELSE existing.method,
                     key.v, nonce, sok)

UpdateFound(r, existing, i, name, plaintext, method, key, nonce, sok) ==
    IF ~(plaintext.some \/ method.some \/ key.some)
    THEN Updated(RepoRun(r.g,
                         CallUpdate("cipher", i,
                                    [name |-> IF name.some THEN name.v ELSE existing.name,
                                     encrypted_cipher |-> existing.encrypted_cipher,
                                     method |-> existing.method]),
                         sok, r.fuel))
    ELSE IF ~Truthy(key) THEN Refused(r)
    ELSE Reencrypted(IF plaintext.some
                     THEN Outcome(r.g, r.fuel, "done", RetText(plaintext.v))
                     ELSE decrypt_cipher(r.g, i, key.v, sok, r.fuel),
                     i,
                     IF name.some THEN name.v ELSE existing.name,
                     IF method.some THEN method.v ELSE existing.method,
                     key.v, nonce, sok)

UpdateGot(r, i, name, plaintext, method, key, nonce, sok) ==
    IF r.l.pc = "raised" \/ r.l.ret = RetNone THEN Refused(r)
    ELSE UpdateFound(r, r.l.ret.ent.data, i, name, plaintext, method, key, nonce, sok)

update_cipher(g, i, name, plaintext, method, key, nonce, sok, fuel) ==
    UpdateGot(RepoRun(g, CallGet("cipher", i), sok, fuel),
              i, name, plaintext, method, key, nonce, sok)

(***************************************************************************)
(* Salt service.                                                           *)
(***************************************************************************)
SaltMethods == {"sha256", "sha512", "md5", "argon2"}

SaltMethodNames == {"sha256", "md5", "argon2", "rot13"}
SaltValues == {Absent, Given("s1"), Given("")}
RandomSalts == {"s2"}

\* SaltService.create_salt; rnd is what os.urandom yields if it is asked
SaltAdded(r) ==
    IF r.l.pc = "raised" THEN Failed(r, "Exception", "repository")
    ELSE Outcome(r.g, r.fuel, "done", r.l.ret)


\* faulty variant of create_salt: argon2 falls back to sha256
CreateSaltFallback(g, method, salt_value, rnd, sok, fuel) ==
    IF method \notin SaltMethods
    THEN Outcome(g, fuel, "raised", RetFail("ValueError", "UnsupportedMethod"))
    ELSE SaltAdded(RepoRun(g, CallAdd("salt",
                                      [method |-> IF method = "argon2" THEN "sha256"
                                                  ELSE method,
                                       salt |-> IF salt_value.some /\ salt_value.v # ""
                                                THEN salt_value.v ELSE rnd]),
                           sok, fuel))

create_salt(g, method, salt_value, rnd, sok, fuel) ==
    IF method \notin SaltMethods
    THEN Outcome(g, fuel, "raised", RetFail("ValueError", "UnsupportedMethod"))
    ELSE IF method = "argon2"
    THEN Outcome(g, fuel, "raised", RetFail("Exception", "ImportError"))
    ELSE SaltAdded(RepoRun(g, CallAdd("salt",
                                      [method |-> method,
                                       salt |-> IF salt_value.some /\ salt_value.v # ""
                                                THEN salt_value.v ELSE rnd]),
                           sok, fuel))

\* SaltService.list_all_salts
list_all_salts(g, sok, fuel) == Listed(RepoRun(g, CallGetAll("salt"), sok, fuel))

\* SaltService.delete_all_salts
delete_all_salts(g, sok, fuel) == Deleted(RepoRun(g, CallDeleteAll, sok, fuel))

\* kasa-api update_salt (the request carries JSON data): the first salt is
\* deleted if there is one and a salt is created in its place
SaltShown(u) ==
    Outcome(u.g, u.fuel, "done",
            IF u.pc = "raised" \/ u.ret = RetNone THEN RetHttp(500) ELSE RetHttp(200))

SaltRecreated(c, sok) ==
    IF c.pc = "raised" THEN Outcome(c.g, c.fuel, "done", RetHttp(500))
    ELSE IF c.ret.idv = FirstSaltId
    THEN SaltShown(get_record(c.g, "salt", FirstSaltId, sok, c.fuel))
    ELSE Outcome(c.g, c.fuel, "done", RetHttp(200))

SaltCleared(d, method, salt_value, rnd, sok) ==
    SaltRecreated(create_salt(d.g, method, salt_value, rnd, sok, d.fuel), sok)

SaltLooked(s, method, salt_value, rnd, sok) ==
    IF s.pc = "raised" THEN Outcome(s.g, s.fuel, "done", RetHttp(500))
    ELSE IF s.ret = RetNone THEN SaltCleared(s, method, salt_value, rnd, sok)
    ELSE SaltCleared(delete_record(s.g, "salt", FirstSaltId, sok, s.fuel),
                     method, salt_value, rnd, sok)

update_salt(g, method, salt_value, rnd, sok, fuel) ==
    SaltLooked(get_record(g, "salt", FirstSaltId, sok, fuel), method, salt_value, rnd, sok)

(***************************************************************************)
(* The interleaved system: every caller runs one repository operation at a *)
(* time, one step at a time, against a store and a cache that answer.      *)
(* lastStore records, for every row, the caller whose commit it holds;     *)
(* last records the call made last when whole calls are run (SvcSpec);     *)
(* made records, for every cipher the first-salt protocol created, what it *)
(* was created from (ProtoSpec).                                           *)
(***************************************************************************)
\* the record of a completed call; had: whether the row and the cache key it
\* names were there when it began
Done(op, k, i, arg, sok, had, pc, ret) ==
    [op |-> op, kind |-> k, id |-> i, arg |-> arg, sok |-> sok, had |-> had,
     pc |-> pc, ret |-> ret]

Nothing == [row |-> FALSE, key |-> FALSE]

NoCall == Done("none", "salt", 0, NoItem, TRUE, Nothing, "idle", RetNone)

Init ==
    /\ store = [k \in Kinds |-> EmptyMap]
    /\ cache = EmptyMap
    /\ loc = [p \in Procs |-> IdleLoc]
    /\ nops = 0
    /\ last = NoCall
    /\ lastStore = EmptyMap
    /\ made = EmptyMap

Global == [store |-> store, cache |-> cache]


Resting(p) == loc[p].pc \in {"idle"} \cup Final

Begin(p, l) ==
    /\ Resting(p)
    /\ nops < MaxOps
    /\ nops' = nops + 1
    /\ loc' = [loc EXCEPT ![p] = l]
    /\ UNCHANGED <<store, cache, last, lastStore, made>>

\* who holds what after caller p's step from lo to r.l
StoreWriters(p, lo, r) ==
    IF r.l.pc = "raised" THEN lastStore
    ELSE CASE lo.pc \in {"add_commit", "upd_commit"} -> Put(lastStore, Key(lo.kind, r.l.id), p)
           [] lo.pc = "del_commit" -> Remove(lastStore, Key(lo.kind, lo.id))
           [] lo.pc = "da_commit" ->
                [x \in {y \in DOMAIN lastStore : y[1] # lo.kind} |-> lastStore[x]]
           [] OTHER -> lastStore

\* caller p takes the next step of its operation
Apply(p) ==
    LET r == RepoStep(Global, loc[p], TRUE, TRUE)
    IN  /\ store' = r.g.store
        /\ cache' = r.g.cache
        /\ loc' = [loc EXCEPT ![p] = r.l]
        /\ lastStore' = StoreWriters(p, loc[p], r)
        /\ UNCHANGED <<nops, last, made>>

At(p, pc) == loc[p].pc = pc

StartAdd(p) ==
    \E k \in Kinds : \E item \in Items(k) :
        /\ NextId(store[k]) <= MaxId
        /\ Begin(p, CallAdd(k, item))

StartGet(p) ==
    \E k \in Kinds : \E i \in Ids :
        /\ Resting(p)
        /\ Begin(p, CallGet(k, i))

StartUpdate(p) ==
    \E k \in Kinds : \E i \in Ids : \E item \in Items(k) :
        /\ Resting(p)
        /\ Begin(p, CallUpdate(k, i, item))

StartDelete(p) ==
    \E k \in Kinds : \E i \in Ids :
        /\ Resting(p)
        /\ Begin(p, CallDelete(k, i))

StartGetAll(p) ==
    \E k \in Kinds :
        /\ Resting(p)
        /\ Begin(p, CallGetAll(k))

StartDeleteAll(p) ==
    /\ Resting(p)
    /\ Begin(p, CallDeleteAll)

StartFlush(p) ==
    /\ Resting(p)
    /\ Begin(p, CallFlush)

AddCommit(p) ==
    /\ At(p, "add_commit")
    /\ NextId(store[loc[p].kind]) <= MaxId
    /\ Apply(p)

AddRefresh(p) ==
    /\ At(p, "add_refresh")
    /\ Apply(p)

AddCache(p) ==
    /\ At(p, "add_cache")
    /\ Apply(p)

GetCache(p) ==
    /\ At(p, "get_cache")
    /\ Apply(p)

GetStore(p) ==
    /\ At(p, "get_store")
    /\ Apply(p)

GetFill(p) ==
    /\ At(p, "get_fill")
    /\ Apply(p)

UpdQuery(p) ==
    /\ At(p, "upd_query")
    /\ Apply(p)

UpdCommit(p) ==
    /\ At(p, "upd_commit")
    /\ Apply(p)

UpdReload(p) ==
    /\ At(p, "upd_reload")
    /\ Apply(p)

UpdCache(p) ==
    /\ At(p, "upd_cache")
    /\ Apply(p)

DelQuery(p) ==
    /\ At(p, "del_query")
    /\ Apply(p)

DelCommit(p) ==
    /\ At(p, "del_commit")
    /\ Apply(p)

DelCache(p) ==
    /\ At(p, "del_cache")
    /\ Apply(p)

GaQuery(p) ==
    /\ At(p, "ga_query")
    /\ Apply(p)

GaFill(p) ==
    /\ At(p, "ga_fill")
    /\ Apply(p)

DaCommit(p) ==
    /\ At(p, "da_commit")
    /\ Apply(p)

DaFlush(p) ==
    /\ At(p, "da_flush")
    /\ Apply(p)

FcFlush(p) ==
    /\ At(p, "fc_flush")
    /\ Apply(p)

Start(p) ==
    \/ StartAdd(p)
    \/ StartGet(p)
    \/ StartUpdate(p)
    \/ StartDelete(p)
    \/ StartGetAll(p)
    \/ StartDeleteAll(p)
    \/ StartFlush(p)

Step(p) ==
    \/ AddCommit(p) \/ AddRefresh(p) \/ AddCache(p)
    \/ GetCache(p) \/ GetStore(p) \/ GetFill(p)
    \/ UpdQuery(p) \/ UpdCommit(p) \/ UpdReload(p) \/ UpdCache(p)
    \/ DelQuery(p) \/ DelCommit(p) \/ DelCache(p)
    \/ GaQuery(p) \/ GaFill(p)
    \/ DaCommit(p) \/ DaFlush(p)
    \/ FcFlush(p)

Next == \E p \in Procs : Start(p) \/ Step(p)

Spec == Init /\ [][Next]_vars

\* the five record operations alone, interleaved: no delete_all, no flush
CrudStart(p) ==
    \/ StartAdd(p)
    \/ StartGet(p)
    \/ StartUpdate(p)
    \/ StartDelete(p)
    \/ StartGetAll(p)

CrudStep(p) ==
    \/ AddCommit(p) \/ AddRefresh(p) \/ AddCache(p)
    \/ GetCache(p) \/ GetStore(p) \/ GetFill(p)
    \/ UpdQuery(p) \/ UpdCommit(p) \/ UpdReload(p) \/ UpdCache(p)
    \/ DelQuery(p) \/ DelCommit(p) \/ DelCache(p)
    \/ GaQuery(p) \/ GaFill(p)

CrudNext == \E p \in Procs : CrudStart(p) \/ CrudStep(p)

CrudSpec == Init /\ [][CrudNext]_vars

\* the same steps with the callers taking turns: an operation starts only
\* when no other is under way
Alone(p) == \A q \in Procs \ {p} : Resting(q)

SeqStart(p) ==
    /\ Alone(p)
    /\ Start(p)

SeqStep(p) ==
    /\ Alone(p)
    /\ Step(p)

SeqNext == \E p \in Procs : SeqStart(p) \/ SeqStep(p)

SeqSpec == Init /\ [][SeqNext]_vars

(***************************************************************************)
(* The system one call at a time: a caller makes a whole repository or     *)
(* service call, during which the store may be unreachable and the cache   *)
(* may become unreachable after some of its calls.                         *)
(***************************************************************************)
\* the store is down for the whole call, or the cache stops answering after
\* 0..MaxFuel of the call's cache calls, or nothing fails
Faults ==
    {[sok |-> FALSE, fuel |-> -1]} \cup {[sok |-> TRUE, fuel |-> n] : n \in -1..MaxFuel}

Record(g, rec) ==
    /\ store' = g.store
    /\ cache' = g.cache
    /\ last' = rec
    /\ nops' = nops + 1
    /\ UNCHANGED <<loc, lastStore, made>>

Had(k, i) == [row |-> Has(store[k], i), key |-> Has(cache, Key(k, i))]

RepoCall(l, sok, fuel) ==
    LET r == RepoRun(Global, l, sok, fuel)
    IN  Record(r.g, Done(l.op, l.kind, r.l.id, l.item, sok, Had(l.kind, l.id),
                         r.l.pc, r.l.ret))

SvcCall(op, k, i, arg, sok, o) ==
    Record(o.g, Done(op, k, i, arg, sok, Had(k, i), o.pc, o.ret))

RepoAdd ==
    \E k \in Kinds : \E item \in Items(k) : \E f \in Faults :
        /\ nops < MaxOps
        /\ NextId(store[k]) <= MaxId
        /\ RepoCall(CallAdd(k, item), f.sok, f.fuel)

RepoGet ==
    \E k \in Kinds : \E i \in Ids : \E f \in Faults :
        /\ nops < MaxOps
        /\ RepoCall(CallGet(k, i), f.sok, f.fuel)

RepoUpdate ==
    \E k \in Kinds : \E i \in Ids : \E item \in Items(k) :
    \E f \in Faults :
        /\ nops < MaxOps
        /\ RepoCall(CallUpdate(k, i, item), f.sok, f.fuel)

RepoDelete ==
    \E k \in Kinds : \E i \in Ids : \E f \in Faults :
        /\ nops < MaxOps
        /\ RepoCall(CallDelete(k, i), f.sok, f.fuel)

RepoGetAll ==
    \E k \in Kinds : \E f \in Faults :
        /\ nops < MaxOps
        /\ RepoCall(CallGetAll(k), f.sok, f.fuel)

RepoDeleteAll ==
    \E f \in Faults :
        /\ nops < MaxOps
        /\ RepoCall(CallDeleteAll, f.sok, f.fuel)

FlushCache ==
    \E f \in Faults :
        /\ nops < MaxOps
        /\ RepoCall(CallFlush, f.sok, f.fuel)

SvcGet ==
    \E k \in Kinds : \E i \in Ids : \E f \in Faults :
        /\ nops < MaxOps
        /\ SvcCall("get_record", k, i, NoItem, f.sok,
                   get_record(Global, k, i, f.sok, f.fuel))

SvcDelete ==
    \E k \in Kinds : \E i \in Ids : \E f \in Faults :
        /\ nops < MaxOps
        /\ SvcCall("delete_record", k, i, NoItem, f.sok,
                   delete_record(Global, k, i, f.sok, f.fuel))

SvcCreateCipher ==
    \E name \in Names : \E pt \in Plaintexts : \E method \in MethodNames :
    \E key \in Keys : \E nonce \in Nonces : \E f \in Faults :
        /\ nops < MaxOps
        /\ Lower(method) \in Strategies => NextId(store["cipher"]) <= MaxId
        /\ SvcCall("create_cipher", "cipher", 0,
                   [name |-> name, plaintext |-> pt, method |-> method, key |-> key],
                   f.sok,
                   create_cipher(Global, name, pt, method, key, nonce, f.sok, f.fuel))

SvcNext ==
    \/ RepoAdd
    \/ RepoGet
    \/ RepoUpdate
    \/ RepoDelete
    \/ RepoGetAll
    \/ RepoDeleteAll
    \/ FlushCache
    \/ SvcGet
    \/ SvcDelete
    \/ SvcCreateCipher

SvcSpec == Init /\ [][SvcNext]_vars


\* SaltService.get_supported_methods: Salt() is built with the default
\* method, which never fails, and hands out the class's list
get_supported_methods == SaltMethods

(***************************************************************************)
(* ProtoSpec: the service calls of the first-salt protocol, of search and  *)
(* of update, run one at a time against a store and a cache that answer.   *)
(***************************************************************************)
MaxCalls == 4       \* service calls made in one behaviour

Patterns == {<<"d">>, <<"d", "a">>, <<"a">>, <<"d", "b">>, <<"x">>}

NameArgs == {Absent, Given(<<"D", "b">>)}
PlaintextArgs == {Absent, Given("hi")}
MethodArgs == {Absent, Given("aes128")}
KeyArgs == {Absent, Given(<<>>), Given(<<"1">>)}

Note(op, k, i, arg, o, made2) ==
    /\ store' = o.g.store
    /\ cache' = o.g.cache
    /\ last' = Done(op, k, i, arg, TRUE, Had(k, i), o.pc, o.ret)
    /\ nops' = nops + 1
    /\ made' = made2
    /\ UNCHANGED <<loc, lastStore>>

CreateSalt ==
    \E method \in SaltMethodNames : \E v \in SaltValues : \E rnd \in RandomSalts :
        /\ nops < MaxCalls
        /\ NextId(store["salt"]) <= MaxId
        /\ Note("create_salt", "salt", 0, [method |-> method, salt |-> v],
                create_salt(Global, method, v, rnd, TRUE, -1), made)

DeleteSalt ==
    \E i \in Ids :
        /\ nops < MaxCalls
        /\ Note("delete_salt", "salt", i, NoItem,
                delete_record(Global, "salt", i, TRUE, -1), made)

DeleteAllSalts ==
    /\ nops < MaxCalls
    /\ Note("delete_all_salts", "salt", 0, NoItem, delete_all_salts(Global, TRUE, -1), made)

\* the salt it creates may get the id after the largest one of the model
UpdateSalt ==
    \E method \in SaltMethodNames : \E v \in SaltValues : \E rnd \in RandomSalts :
        /\ nops < MaxCalls
        /\ NextId(Remove(store["salt"], FirstSaltId)) <= MaxId + 1
        /\ Note("update_salt", "salt", FirstSaltId, [method |-> method, salt |-> v],
                update_salt(Global, method, v, rnd, TRUE, -1), made)

CreateFirst ==
    \E name \in Names : \E pt \in Plaintexts : \E method \in MethodNames :
    \E nonce \in Nonces :
        LET o == create_cipher_with_first_salt_key(Global, name, pt, method, nonce,
                                                   TRUE, -1)
        IN  /\ nops < MaxCalls
            /\ NextId(store["cipher"]) <= MaxId
            /\ Note("create_first", "cipher", 0,
                    [name |-> name, plaintext |-> pt, method |-> method], o,
                    IF o.pc = "done"
                    THEN Put(made, o.ret.map.cipher_id,
                             [plaintext |-> pt, salt |-> store["salt"][FirstSaltId]])
                    ELSE made)

DecryptFirst ==
    \E i \in Ids :
        /\ nops < MaxCalls
        /\ Note("decrypt_first", "cipher", i, NoItem,
                decrypt_cipher_with_first_salt_key(Global, i, TRUE, -1), made)

DecryptByName ==
    \E pattern \in Patterns :
        /\ nops < MaxCalls
        /\ Note("decrypt_by_name", "cipher", 0, pattern,
                decrypt_cipher_by_name_with_first_salt_key(Global, pattern, TRUE, -1), made)

DeleteByName ==
    \E pattern \in Patterns :
        LET o == delete_cipher_by_name(Global, pattern, TRUE, -1)
        IN  /\ nops < MaxCalls
            /\ Note("delete_by_name", "cipher", 0, pattern, o,
                    Restrict(made, DOMAIN made \cap DOMAIN o.g.store["cipher"]))

SearchByName ==
    \E pattern \in Patterns :
        /\ nops < MaxCalls
        /\ Note("search", "cipher", 0, pattern,
                search_ciphers_by_name(Global, pattern, TRUE, -1), made)

ListAll ==
    /\ nops < MaxCalls
    /\ Note("list_all", "cipher", 0, NoItem, list_all_ciphers(Global, TRUE, -1), made)

GetCipher ==
    \E i \in Ids :
        /\ nops < MaxCalls
        /\ Note("get_cipher", "cipher", i, NoItem,
                get_record(Global, "cipher", i, TRUE, -1), made)

UpdateCipher ==
    \E i \in Ids : \E name \in NameArgs : \E pt \in PlaintextArgs :
    \E method \in MethodArgs : \E key \in KeyArgs : \E nonce \in Nonces :
        LET o == update_cipher(Global, i, name, pt, method, key, nonce, TRUE, -1)
        IN  /\ nops < MaxCalls
            /\ Note("update_cipher", "cipher", i,
                    [name |-> name, plaintext |-> pt, method |-> method, key |-> key], o,
                    IF o.ret = RetBool(TRUE) /\ (pt.some \/ method.some \/ key.some)
                    THEN Restrict(made, DOMAIN made \ {i})
                    ELSE made)

FlushAll ==
    LET r == RepoRun(Global, CallFlush, TRUE, -1)
    IN  /\ nops < MaxCalls
        /\ Note("flush_cache", "salt", 0, NoItem,
                Outcome(r.g, r.fuel, r.l.pc, r.l.ret), made)

ProtoNext ==
    \/ CreateSalt
    \/ DeleteSalt
    \/ DeleteAllSalts
    \/ UpdateSalt
    \/ CreateFirst
    \/ DecryptFirst
    \/ DecryptByName
    \/ DeleteByName
    \/ SearchByName
    \/ ListAll
    \/ GetCipher
    \/ UpdateCipher
    \/ FlushAll

ProtoSpec == Init /\ [][ProtoNext]_vars

(***************************************************************************)
(* CryptoSpec: the strategies as pure functions.  A text is encrypted, the *)
(* same text is encrypted a second time under any key, and the tokens are  *)
(* decrypted by their strategy under any key.  made[1] and made[2] are the *)
(* two encryptions, last the one decryption a behaviour observes.          *)
(***************************************************************************)
K(n) == [j \in 1..n |-> "k"]

CryptoKeys == {<<"1">>, <<"1", "0">>, <<"2">>, K(32), K(32) \o <<"x">>}

CryptoNonces == {1, 2}

Encrypted(m, key, text, nonce) ==
    [method |-> m, key |-> key, text |-> text, nonce |-> nonce,
     token |-> StrategyEncrypt(m, key, text, nonce)]

DecryptedAs(j, m, key, r) ==
    [op |-> "decrypt", from |-> j, method |-> m, key |-> key, result |-> r]

EncryptText ==
    \E m \in Strategies : \E key \in CryptoKeys : \E text \in Texts : \E nonce \in CryptoNonces :
        /\ made = EmptyMap
        /\ made' = Put(made, 1, Encrypted(m, key, text, nonce))
        /\ UNCHANGED <<store, cache, loc, nops, last, lastStore>>

EncryptAgain ==
    \E key \in CryptoKeys : \E nonce \in CryptoNonces :
        /\ DOMAIN made = {1}
        /\ made' = Put(made, 2, Encrypted(made[1].method, key, made[1].text, nonce))
        /\ UNCHANGED <<store, cache, loc, nops, last, lastStore>>

DecryptToken ==
    \E j \in DOMAIN made : \E key \in CryptoKeys :
    \E r \in StrategyDecrypt(made[j].method, key, made[j].token) :
        /\ last = NoCall
        /\ last' = DecryptedAs(j, made[j].method, key, r)
        /\ UNCHANGED <<store, cache, loc, nops, lastStore, made>>

CryptoNext ==
    \/ EncryptText
    \/ EncryptAgain
    \/ DecryptToken

CryptoSpec == Init /\ [][CryptoNext]_vars

(***************************************************************************)
(* Properties.                                                             *)
(***************************************************************************)
\* the cache entry a row's object is written as
Cached(i, fields) == RedisEncode(ToDict(Entity(i, fields)))

\* some operation on row i of kind k has committed to the store and has not
\* yet made its cache call
InWriteWindow(k, i) ==
    \E p \in Procs :
        /\ loc[p].kind = k
        /\ loc[p].id = i
        /\ loc[p].pc \in {"add_refresh", "add_cache", "upd_reload", "upd_cache", "del_cache"}

\* C1: under any interleaving of repository calls, every key the cache
\* holds names a row of the store with the same fields, unless an operation
\* on that id is between its store write and its cache write.
C1_CacheNeverDiverges ==
    \A key \in DOMAIN cache :
        InWriteWindow(key[1], key[2])
        \/ /\ Has(store[key[1]], key[2])
           /\ cache[key] = Cached(key[2], store[key[1]][key[2]])

\* both callers have completed an update of row i of kind k that found it
BothUpdated(k, i) ==
    \A p \in Procs :
        /\ loc[p].op = "update"
        /\ loc[p].pc = "done"
        /\ loc[p].kind = k
        /\ loc[p].id = i
        /\ loc[p].row # NoItem

\* C7: when two concurrent updates of one id have both completed, the store
\* holds the fields of the update that committed last and the cache holds
\* what one of the two cache steps wrote, whichever ran last; there is an
\* interleaving (C7_DivergentUpdates) in which the cache holds the other
\* update's fields.
C7_LastCommitWins ==
    \A k \in Kinds : \A i \in Ids :
        BothUpdated(k, i) =>
            /\ Has(store[k], i)
            /\ Has(lastStore, Key(k, i))
            /\ store[k][i] = loc[lastStore[Key(k, i)]].item
            /\ Has(cache, Key(k, i))
            /\ \E p \in Procs : cache[Key(k, i)] = Cached(i, loc[p].row)

C7_DivergentUpdates ==
    \E k \in Kinds : \E i \in Ids : \E p, q \in Procs :
        /\ BothUpdated(k, i)
        /\ p # q
        /\ loc[p].item # loc[q].item
        /\ lastStore[Key(k, i)] = q
        /\ store[k][i] = loc[q].item
        /\ cache[Key(k, i)] = Cached(i, loc[p].item)

JustDid(op) == nops' = nops + 1 /\ last'.op = op

\* a get of row i of kind k with store and cache answering, from global state g
GetNow(g, k, i) == RepoRun(g, CallGet(k, i), TRUE, -1)

\* C2: after a delete that completed, the store has no row with the id and
\* a get of the id returns None; a service delete of an id whose row exists
\* returns True, and after a service delete that returned True the service
\* get of the id returns None.
C2_DeletedIsGone ==
    /\ (last.op = "delete" /\ last.pc = "done")
       => /\ ~Has(store[last.kind], last.id)
          /\ GetNow(Global, last.kind, last.id).l.pc = "done"
          /\ GetNow(Global, last.kind, last.id).l.ret = RetNone
    /\ (last.op = "delete_record" /\ last.ret = RetBool(TRUE))
       => /\ ~Has(store[last.kind], last.id)
          /\ get_record(Global, last.kind, last.id, TRUE, -1).ret = RetNone
    /\ \A k \in Kinds : \A i \in DOMAIN store[k] :
          LET d == delete_record(Global, k, i, TRUE, -1)
          IN  /\ d.ret = RetBool(TRUE)
              /\ get_record(d.g, k, i, TRUE, -1).ret = RetNone

C2_DeletedExisting ==
    /\ last.op = "delete_record"
    /\ last.had.row
    /\ last.ret = RetBool(TRUE)
    /\ ~Has(store[last.kind], last.id)
    /\ ~Has(cache, Key(last.kind, last.id))

\* C3: after a flush of the cache, for every row of the store the next get
\* returns the row's record and leaves it in the cache, and a second get,
\* made with the store unavailable, completes and returns the same record.
C3_ReadThroughSameRecord ==
    (last.op = "flush_cache" /\ last.pc = "done")
    => \A k \in Kinds : \A i \in DOMAIN store[k] :
          LET r1 == GetNow(Global, k, i)
              r2 == RepoRun(r1.g, CallGet(k, i), FALSE, -1)
          IN  /\ r1.l.pc = "done"
              /\ r1.l.ret = RetEnt(Entity(i, store[k][i]))
              /\ Has(r1.g.cache, Key(k, i))
              /\ r1.g.cache[Key(k, i)] = Cached(i, store[k][i])
              /\ r2.l.pc = "done"
              /\ r2.l.ret = r1.l.ret

\* the add, update or delete recorded last reached its cache call: the store
\* answered and, for update, the row was there
StoreStepDone ==
    /\ last.op \in {"add", "update", "delete"}
    /\ last.sok
    /\ last.op = "update" => last.had.row

\* C5: a repository add, update or delete whose store step went through
\* completes normally whatever the cache does, add returning the id, and a
\* create_cipher with a supported method and the store answering reports
\* success.
C5_CacheErrorSwallowed ==
    /\ StoreStepDone
       => /\ last.pc = "done"
          /\ last.op = "add" => last.ret = RetId(last.id)
    /\ (last.op = "create_cipher" /\ last.sok /\ Lower(last.arg.method) \in Strategies)
       => last.pc = "done"

\* C6: after an add whose insert committed and whose cache write failed, the
\* row is in the store, and a get of its id with the cache available returns
\* the added record and leaves it in the cache.
C6_FailedCacheWriteRepaired ==
    (last.op = "add" /\ last.pc = "raised" /\ last.ret = RetExc("CacheError"))
    => /\ Has(store[last.kind], last.id)
       /\ store[last.kind][last.id] = last.arg
       /\ LET r == GetNow(Global, last.kind, last.id)
          IN  /\ r.l.pc = "done"
              /\ r.l.ret.tag = "entity"
              /\ r.l.ret.ent.data = last.arg
              /\ r.g.cache[Key(last.kind, last.id)].data = last.arg

\* C8: an update that completes on an id whose row exists leaves the store
\* row and the cache entry of that id holding the supplied fields, creates
\* and removes no id, and changes no other row and no other cache entry.
C8_UpdateOverwrites ==
    [][(JustDid("update") /\ last'.pc = "done" /\ Has(store[last'.kind], last'.id))
       => /\ store' = [store EXCEPT ![last'.kind][last'.id] = last'.arg]
          /\ cache' = Put(cache, Key(last'.kind, last'.id), Cached(last'.id, last'.arg))
          /\ DOMAIN store'[last'.kind] = DOMAIN store[last'.kind]]_vars

C8_Updated ==
    /\ last.op = "update"
    /\ last.pc = "done"
    /\ last.had.row
    /\ last.had.key
    /\ store[last.kind][last.id] = last.arg
    /\ cache[Key(last.kind, last.id)] = Cached(last.id, last.arg)
    /\ Cardinality(DOMAIN cache) > 1

\* C9: an update of an id that has no row in the store changes neither the
\* store nor the cache.
C9_UpdateAbsentNoOp ==
    [][(JustDid("update") /\ ~Has(store[last'.kind], last'.id))
       => /\ store' = store
          /\ cache' = cache
          /\ last'.pc = "done" => last'.ret = RetNone]_vars

C9_UpdatedAbsent ==
    /\ last.op = "update"
    /\ last.pc = "done"
    /\ ~last.had.row
    /\ ~Has(store[last.kind], last.id)
    /\ ~Has(cache, Key(last.kind, last.id))
    /\ DOMAIN store[last.kind] # {}

\* a store or cache that did not answer
InfraErrors == {RetExc("StoreError"), RetExc("CacheError")}

\* C10: a delete that completes removes the row of its id if there is one
\* and the cache entry of its id, and nothing else; a delete raises only
\* when the store or the cache does not answer; a delete of an id without a
\* row, and a second delete after a completed one, complete and leave the
\* store as it was and the cache without the key.
C10_DeleteIdempotent ==
    /\ [][JustDid("delete")
          => /\ last'.pc = "done"
                => /\ store' = [store EXCEPT ![last'.kind] = Remove(@, last'.id)]
                   /\ cache' = Remove(cache, Key(last'.kind, last'.id))
             /\ last'.pc = "raised" => last'.ret \in InfraErrors]_vars
    /\ [](\A k \in Kinds : \A i \in Ids :
            LET d1 == RepoRun(Global, CallDelete(k, i), TRUE, -1)
                d2 == RepoRun(d1.g, CallDelete(k, i), TRUE, -1)
            IN  /\ d1.l.pc = "done"
                /\ d2.l.pc = "done"
                /\ d2.g = d1.g
                /\ ~Has(store[k], i)
                   => /\ d1.g.store = store
                      /\ d1.g.cache = Remove(cache, Key(k, i)))

C10_DeletedAbsent ==
    /\ last.op = "delete"
    /\ last.pc = "done"
    /\ ~last.had.row
    /\ last.had.key
    /\ ~Has(cache, Key(last.kind, last.id))

\* what get_all of kind k, left as r, owes the store and the cache it began with
ListsStore(r, g, k) ==
    /\ r.l.pc = "done"
    /\ r.l.ret = RetList(g.store[k])
    /\ r.g.store = g.store
    /\ \A i \in DOMAIN g.store[k] :
          /\ Has(r.g.cache, Key(k, i))
          /\ r.g.cache[Key(k, i)] = Cached(i, g.store[k][i])

\* C11: in every state, whatever the cache holds, get_all returns exactly
\* the rows of the store, leaves the store as it is, and leaves every row
\* it returned in the cache with the row's fields; so does every get_all
\* that was made.
C11_ListFromStore ==
    /\ [](\A k \in Kinds :
             ListsStore(RepoRun(Global, CallGetAll(k), TRUE, -1), Global, k))
    /\ [][(JustDid("get_all") /\ last'.pc = "done")
          => /\ store' = store
             /\ last'.ret = RetList(store[last'.kind])
             /\ \A i \in DOMAIN store[last'.kind] :
                   /\ Has(cache', Key(last'.kind, i))
                   /\ cache'[Key(last'.kind, i)] = Cached(i, store[last'.kind][i])]_vars

C11_ListedBesideExtraKey ==
    /\ last.op = "get_all"
    /\ last.pc = "done"
    /\ last.ret = RetList(store[last.kind])
    /\ \E i \in Ids : Has(cache, Key(last.kind, i)) /\ ~Has(store[last.kind], i)

\* what a get, left as r, and the service get, left as o, owe a miss
MissIsNone(r, o, g) ==
    /\ r.l.pc = "done"
    /\ r.l.ret = RetNone
    /\ r.g = g
    /\ o.pc = "done"
    /\ o.ret = RetNone
    /\ o.g = g

\* C12: for an id that neither the cache nor the store holds, get returns
\* None without raising and writes nothing, and get_salt/get_cipher return
\* None.
C12_MissIsAbsent ==
    \A k \in Kinds : \A i \in Ids :
        (~Has(store[k], i) /\ ~Has(cache, Key(k, i)))
        => MissIsNone(GetNow(Global, k, i), get_record(Global, k, i, TRUE, -1), Global)

C12_Missed ==
    /\ last.op = "get"
    /\ last.pc = "done"
    /\ last.ret = RetNone
    /\ ~last.had.row
    /\ ~last.had.key
    /\ DOMAIN store[last.kind] # {}

\* the cipher keys of a cache
CipherKeys(c) == {key \in DOMAIN c : key[1] = "cipher"}

\* the call, left as o, was refused for want of the first salt and wrote nothing
GateShut(o, g) ==
    /\ o.pc = "raised"
    /\ o.ret = RetFail("ValueError", "FirstSaltMissing")
    /\ o.g = g

\* the call, left as o, added the one cipher i to the tables old, now new
OneAdded(o, g, i, old, new, name, method) ==
    /\ o.pc = "done"
    /\ o.ret.map.cipher_id = i
    /\ i \notin DOMAIN old
    /\ DOMAIN new = DOMAIN old \cup {i}
    /\ \A j \in DOMAIN old : new[j] = old[j]
    /\ new[i].name = name
    /\ new[i].method = method
    /\ o.g.store["salt"] = g.store["salt"]
    /\ CipherKeys(o.g.cache) = CipherKeys(g.cache) \cup {Key("cipher", i)}
    /\ o.g.cache[Key("cipher", i)] = Cached(i, new[i])
    /\ \A key \in CipherKeys(g.cache) : o.g.cache[key] = g.cache[key]

Gate(o, g, name, method) ==
    /\ ~Has(g.store["salt"], FirstSaltId) => GateShut(o, g)
    /\ (/\ Has(g.store["salt"], FirstSaltId)
        /\ Lower(method) \in Strategies
        /\ NextId(g.store["cipher"]) <= MaxId)
       => OneAdded(o, g, NextId(g.store["cipher"]), g.store["cipher"],
                   o.g.store["cipher"], name, method)

\* C13: in every state, create_cipher_with_first_salt_key is refused with
\* the first-salt-missing error and adds no cipher to the store or the cache
\* when the store has no salt 1, and when it has one and the method is
\* supported it completes and adds exactly one cipher to the store and to
\* the cache.
C13_FirstSaltGate ==
    \A name \in Names : \A pt \in Plaintexts : \A method \in MethodNames :
    \A nonce \in Nonces :
        Gate(create_cipher_with_first_salt_key(Global, name, pt, method, nonce, TRUE, -1),
             Global, name, method)

C13_RefusedAfterCreated ==
    /\ last.op = "create_first"
    /\ last.pc = "raised"
    /\ last.ret = RetFail("ValueError", "FirstSaltMissing")
    /\ ~Has(store["salt"], FirstSaltId)
    /\ DOMAIN made # {}

\* the decryption, left as d, returned the text pt
Returned(d, pt) ==
    /\ d.pc = "done"
    /\ d.ret = RetText(pt)

\* the creation, left as c, is followed by a decryption that returns pt
RoundTrip(c, pt) ==
    /\ c.pc = "done"
    /\ Returned(decrypt_cipher_with_first_salt_key(c.g, c.ret.map.cipher_id, TRUE, -1), pt)

\* C14: in every state with a salt 1, for every supported method and every
\* plaintext, the empty one included, create_cipher_with_first_salt_key
\* followed by decrypt_cipher_with_first_salt_key of the returned id yields
\* the plaintext; and every cipher made that way earlier, whatever was
\* created, read, listed or searched since, still decrypts to its plaintext.
C14_ProtocolRoundTrip ==
    Has(store["salt"], FirstSaltId)
    => /\ \A name \in Names : \A pt \in Plaintexts : \A nonce \in Nonces :
          \A method \in {m \in MethodNames : Lower(m) \in Strategies} :
              NextId(store["cipher"]) <= MaxId
              => RoundTrip(create_cipher_with_first_salt_key(Global, name, pt, method,
                                                             nonce, TRUE, -1), pt)
       /\ \A i \in DOMAIN made :
              Returned(decrypt_cipher_with_first_salt_key(Global, i, TRUE, -1),
                       made[i].plaintext)

C14_EmptyTextDecrypted ==
    /\ last.op = "decrypt_first"
    /\ last.pc = "done"
    /\ last.id \in DOMAIN made
    /\ last.ret = RetText("")
    /\ made[last.id].plaintext = ""
    /\ store["cipher"][last.id].method = "AES256"
    /\ Cardinality(DOMAIN store["cipher"]) > 1

\* the store and the cache g with the content of the first salt replaced
WithSalt(g, item) ==
    [store |-> [g.store EXCEPT !["salt"] = Put(@, FirstSaltId, item)],
     cache |-> IF Has(g.cache, Key("salt", FirstSaltId))
               THEN Put(g.cache, Key("salt", FirstSaltId), Cached(FirstSaltId, item))
               ELSE g.cache]

\* the creation, left as o, reports the salt id 1 and the key "1"
KeyIsOne(o) ==
    /\ o.pc = "done"
    /\ o.ret.map.salt_id_used = 1
    /\ o.ret.map.cipher_key_used = <<"1">>

\* two creations, left as o1 and o2, stored the same ciphers under the same key
SameKeyed(o1, o2) ==
    /\ KeyIsOne(o1)
    /\ KeyIsOne(o2)
    /\ o1.ret.map.cipher_id = o2.ret.map.cipher_id
    /\ o1.g.store["cipher"] = o2.g.store["cipher"]

\* C15: the first-salt calls use the key "1" whatever the first salt holds:
\* in every state with a salt 1, the same creation run against the state and
\* against the state with any other method and value in salt 1 reports
\* salt_id_used = 1 and cipher_key_used = "1" and stores the same cipher,
\* and every cipher made earlier decrypts to its plaintext under either
\* content, also when salt 1 is no longer the salt it was created under.
C15_KeyIgnoresSaltContent ==
    /\ (last.op = "create_first" /\ last.pc = "done")
       => (last.ret.map.salt_id_used = 1 /\ last.ret.map.cipher_key_used = <<"1">>)
    /\ Has(store["salt"], FirstSaltId)
       => \A item \in SaltItems :
             /\ \A name \in Names : \A pt \in Plaintexts : \A nonce \in Nonces :
                \A method \in {m \in MethodNames : Lower(m) \in Strategies} :
                    NextId(store["cipher"]) <= MaxId
                    => SameKeyed(create_cipher_with_first_salt_key(
                                     Global, name, pt, method, nonce, TRUE, -1),
                                 create_cipher_with_first_salt_key(
                                     WithSalt(Global, item), name, pt, method, nonce,
                                     TRUE, -1))
             /\ \A i \in DOMAIN made :
                    /\ Returned(decrypt_cipher_with_first_salt_key(
                                    WithSalt(Global, item), i, TRUE, -1),
                                made[i].plaintext)
                    /\ made[i].salt # store["salt"][FirstSaltId]
                       => Returned(decrypt_cipher_with_first_salt_key(
                                       Global, i, TRUE, -1),
                                   made[i].plaintext)

C15_DecryptedUnderNewSalt ==
    /\ last.op = "decrypt_first"
    /\ last.pc = "done"
    /\ last.id \in DOMAIN made
    /\ last.ret = RetText(made[last.id].plaintext)
    /\ Has(store["salt"], FirstSaltId)
    /\ made[last.id].salt # store["salt"][FirstSaltId]

\* the decryption, left as d, failed for want of the first salt and wrote
\* nothing to the store of g
RefusedForSalt(d, g) ==
    /\ d.pc = "raised"
    /\ d.ret.why = "FirstSaltMissing"
    /\ d.g.store = g.store

ZeroOneMany(m, d, g) ==
    /\ DOMAIN m = {}
       => (d.pc = "raised" /\ d.ret.why = "CipherNotFound")
    /\ Cardinality(DOMAIN m) > 1
       => (d.pc = "raised" /\ d.ret.why = "AmbiguousName" /\ d.g.store = g.store)
    /\ (Cardinality(DOMAIN m) = 1 /\ Has(g.store["salt"], FirstSaltId))
       => /\ d.pc = "done"
          /\ d.ret.map.cipher_id = IntVal(SetMin(DOMAIN m))
          /\ SetMin(DOMAIN m) \in DOMAIN made
             => d.ret.map.decrypted_text = made[SetMin(DOMAIN m)].plaintext

\* C17: in every state and for every pattern, decrypt-by-name fails with
\* CipherNotFound when the search of the pattern matches nothing, fails with
\* AmbiguousName and writes nothing when it matches several ciphers, and,
\* when it matches exactly one and salt 1 exists, decrypts that cipher and
\* returns its plaintext.
C17_ZeroOneManyPolicy ==
    \A pattern \in Patterns :
        ZeroOneMany(search_ciphers_by_name(Global, pattern, TRUE, -1).ret.rows,
                    decrypt_cipher_by_name_with_first_salt_key(Global, pattern, TRUE, -1),
                    Global)

\* the ids of table old that table new no longer has
Gone(old, new) == DOMAIN old \ DOMAIN new

\* delete-by-name, left as del, deleted exactly the cipher that
\* decrypt-by-name, left as dec, decrypted, or nothing if it did not decrypt
SamePolicy(m, del, dec, g) ==
    /\ Gone(g.store["cipher"], del.g.store["cipher"]) # {} <=> dec.pc = "done"
    /\ dec.pc = "done"
       => IntVal(SetMin(Gone(g.store["cipher"], del.g.store["cipher"])))
              = dec.ret.map.cipher_id
    /\ Cardinality(DOMAIN m) # 1 => del.g.store = g.store

\* C18: in every state with a salt 1 and for every pattern, delete-by-name
\* deletes a cipher exactly when decrypt-by-name decrypts one, and then the
\* same cipher; when the pattern matches no cipher or several, it deletes
\* nothing.
C18_DeleteFollowsDecryptPolicy ==
    Has(store["salt"], FirstSaltId)
    => \A pattern \in Patterns :
           SamePolicy(search_ciphers_by_name(Global, pattern, TRUE, -1).ret.rows,
                      delete_cipher_by_name(Global, pattern, TRUE, -1),
                      decrypt_cipher_by_name_with_first_salt_key(Global, pattern, TRUE, -1),
                      Global)

\* the letters of the model that differ only in case
CasePairs == {{"d", "D"}, {"a", "A"}, {"b", "B"}}

SameLetter(a, b) == a = b \/ {a, b} \in CasePairs

\* sub occurs in t at some position, letters compared without regard to case
Infix(sub, t) ==
    \E k \in 1..(Len(t) - Len(sub) + 1) :
        \A j \in 1..Len(sub) : SameLetter(t[k + j - 1], sub[j])

\* the ciphers of a table whose name contains the pattern, as dictionaries
NamedLike(table, pattern) ==
    [i \in {j \in DOMAIN table : Infix(pattern, table[j].name)} |->
        ToDict(Entity(i, table[i]))]

\* caches that disagree with the store: none, and every cipher id under the
\* fields of some other record
OtherCaches ==
    {EmptyMap} \cup {[key \in {Key("cipher", i) : i \in Ids} |-> Cached(key[2], item)] :
                        item \in CipherItems}

\* the search, left as o, returned the rows and left the store of g alone
Found(o, g, rows) ==
    /\ o.pc = "done"
    /\ o.ret = RetList(rows)
    /\ o.g.store = g.store

\* C19: in every state and for every pattern, search_ciphers_by_name
\* returns exactly the ciphers of the store whose name contains the pattern
\* when case is ignored, and returns the same under an empty cache and under
\* a cache whose entries hold other fields.
C19_SearchFromStore ==
    \A pattern \in Patterns :
        /\ Found(search_ciphers_by_name(Global, pattern, TRUE, -1), Global,
                 NamedLike(store["cipher"], pattern))
        /\ \A c \in OtherCaches :
               Found(search_ciphers_by_name([store |-> store, cache |-> c], pattern,
                                            TRUE, -1),
                     Global, NamedLike(store["cipher"], pattern))

C19_PrefixFindsBoth ==
    /\ last.op = "search"
    /\ last.pc = "done"
    /\ last.arg = <<"d">>
    /\ Cardinality(DOMAIN last.ret.rows) = 2
    /\ \E i \in DOMAIN store["cipher"] : store["cipher"][i].name = <<"D", "b">>
    /\ Cardinality(DOMAIN search_ciphers_by_name(Global, <<"d", "a">>, TRUE, -1).ret.rows) = 1

\* the update, left as o, failed for want of a key and wrote nothing
RefusedForKey(o, g) ==
    /\ o.pc = "raised"
    /\ o.ret.why = "KeyRequired"
    /\ o.g = g

\* C20: in every state, for every cipher of the store, update_cipher with
\* a new plaintext or a new method and no key fails with the key-required
\* error and leaves the store and the cache as they were.
C20_UpdateWithoutKeyFails ==
    \A i \in DOMAIN store["cipher"] : \A name \in NameArgs : \A pt \in PlaintextArgs :
    \A method \in MethodArgs : \A nonce \in Nonces :
        (pt.some \/ method.some)
        => RefusedForKey(update_cipher(Global, i, name, pt, method, Absent, nonce, TRUE, -1),
                         Global)

\* a key other than the one the first-salt protocol encrypts under
OtherKeys == {<<"2">>}

\* the update, left as o, left the ciphertext of cipher i of g as it was
CiphertextKept(o, g, i) ==
    /\ Has(o.g.store["cipher"], i)
    /\ o.g.store["cipher"][i].encrypted_cipher = g.store["cipher"][i].encrypted_cipher

\* C21: in every state, for every cipher encrypted under the key "1",
\* update_cipher with a new plaintext and another key leaves the stored
\* ciphertext as it was.
C21_WrongKeyKeepsCiphertext ==
    \A i \in DOMAIN made : \A key \in OtherKeys : \A pt \in Plaintexts :
    \A nonce \in Nonces :
        CiphertextKept(update_cipher(Global, i, Absent, Given(pt), Absent, Given(key),
                                     nonce, TRUE, -1),
                       Global, i)

\* the method names of the model that the registry does not hold
UnknownMethods == {m \in MethodNames : Lower(m) \notin {"aes128", "aes256", "chacha20"}}

\* the creation, left as o, was refused as a ValueError and wrote nothing
RejectedUntouched(o, g) ==
    /\ o.pc = "raised"
    /\ o.ret.exc = "ValueError"
    /\ o.g = g

\* the first-salt creation, left as o, failed and added no cipher
NoCipherAdded(o, g) ==
    /\ o.pc = "raised"
    /\ o.g.store = g.store
    /\ CipherKeys(o.g.cache) = CipherKeys(g.cache)
    /\ \A key \in CipherKeys(g.cache) : o.g.cache[key] = g.cache[key]
    /\ Has(g.store["salt"], FirstSaltId)
       => o.ret = RetFail("ValueError", "UnsupportedMethod")

\* C22: in every state, create_cipher with a method name outside the
\* registry is refused with the unsupported-method ValueError and leaves
\* store and cache as they were, whether or not the store and the cache
\* answer (the method is looked up before either is called); so is
\* create_cipher_with_first_salt_key, which adds no cipher.
C22_UnknownMethodRejected ==
    \A method \in UnknownMethods : \A name \in Names : \A pt \in Plaintexts :
    \A nonce \in Nonces :
        /\ \A key \in Keys : \A sok \in BOOLEAN : \A fuel \in {-1, 0} :
               RejectedUntouched(create_cipher(Global, name, pt, method, key, nonce,
                                               sok, fuel),
                                 Global)
        /\ NoCipherAdded(create_cipher_with_first_salt_key(Global, name, pt, method,
                                                           nonce, TRUE, -1),
                         Global)

C22_UnknownMethodRefused ==
    /\ last.op = "create_first"
    /\ last.pc = "raised"
    /\ last.ret = RetFail("ValueError", "UnsupportedMethod")
    /\ last.arg.method \in UnknownMethods
    /\ Has(store["salt"], FirstSaltId)
    /\ DOMAIN store["cipher"] # {}

\* the salt creation, left as o, failed for the cause why and wrote nothing
SaltRefused(o, g, why) ==
    /\ o.pc = "raised"
    /\ o.ret.why = why
    /\ o.g = g

\* C23: argon2 is among the methods get_supported_methods reports, and in
\* every state create_salt with argon2 fails at the construction of the
\* salt and adds no salt under any method to the store or the cache; with
\* a method that is not reported it fails as unsupported and adds nothing.
C23_Argon2FailsFast ==
    /\ "argon2" \in get_supported_methods
    /\ \A v \in SaltValues : \A rnd \in RandomSalts : \A sok \in BOOLEAN :
       \A fuel \in {-1, 0} :
           /\ SaltRefused(create_salt(Global, "argon2", v, rnd, sok, fuel), Global,
                          "ImportError")
           /\ \A method \in SaltMethodNames \ get_supported_methods :
                  SaltRefused(create_salt(Global, method, v, rnd, sok, fuel), Global,
                              "UnsupportedMethod")

C23_Argon2Refused ==
    /\ last.op = "create_salt"
    /\ last.arg.method = "argon2"
    /\ last.pc = "raised"
    /\ last.ret = RetFail("Exception", "ImportError")
    /\ DOMAIN store["salt"] # {}

\* C24 (strategy round trip): decrypting a token with the method and the key
\* it was encrypted with gives exactly the text that was encrypted, for every
\* method, key and text, the empty text included.
SameMethodAndKey == made[last.from].method = last.method /\ made[last.from].key = last.key

C24_StrategyRoundTrip ==
    (last.op = "decrypt" /\ SameMethodAndKey) => last.result = Text(made[last.from].text)

C24_EmptyAndAlignedDecrypted ==
    /\ last.op = "decrypt"
    /\ SameMethodAndKey
    /\ last.result = Text(made[last.from].text)
    /\ \/ made[last.from].text = <<>> /\ last.method = "chacha20"
       \/ made[last.from].text = H(16) /\ last.method = "aes256"

\* C25 (cross-key): decrypting a token under a key string other than the one
\* it was encrypted with never gives back the text that was encrypted.
OtherKey == made[last.from].method = last.method /\ made[last.from].key # last.key

C25_OtherKeyNeverDecrypts ==
    (last.op = "decrypt" /\ OtherKey) => last.result # Text(made[last.from].text)

\* C26 (effective key): the cipher is keyed with the encoded key string cut to
\* its first 16 bytes (aes128) or 32 bytes (aes256, chacha20), or filled up
\* on the right with the byte "0" to that length, and never hashed; two key
\* strings with the same effective key encrypt alike and decrypt each other's
\* tokens.
EffectiveLen(m) == IF m = "aes128" THEN 16 ELSE 32

Cut(bytes, n) == [j \in 1..n |-> IF j <= Len(bytes) THEN bytes[j] ELSE 48]

Effective(m, key) == Cut(Encode(key), EffectiveLen(m))

KeyedWith(token, kb) ==
    \A j \in 1..Len(token) : token[j].half # "char" => token[j].x.k = kb

SameEffective(m, k1, k2) == Effective(m, k1) = Effective(m, k2)

C26_EffectiveKey ==
    /\ \A j \in DOMAIN made :
           LET kb == Effective(made[j].method, made[j].key)
           IN  KeyedWith(made[j].token, kb)
    /\ (2 \in DOMAIN made /\ made[1].method # "chacha20"
            /\ SameEffective(made[1].method, made[1].key, made[2].key))
           => made[1].token = made[2].token
    /\ (last.op = "decrypt" /\ SameEffective(last.method, made[last.from].key, last.key))
           => last.result = Text(made[last.from].text)

C26_LongKeysEquivalent ==
    /\ DOMAIN made = {1, 2}
    /\ made[1].method = "aes256"
    /\ made[1].key = K(32)
    /\ made[2].key = K(32) \o <<"x">>
    /\ made[1].text = <<"h", "i">>
    /\ made[1].token = made[2].token
    /\ last.op = "decrypt"
    /\ last.from = 1
    /\ last.key = made[2].key
    /\ last.result = Text(made[1].text)

\* C27 (AES determinism): two AES encryptions of the same text under the same
\* method and key give the same token, whatever randomness the call draws,
\* and equal plaintext blocks of one text give equal ciphertext blocks.
HexBlock == 2 * BlockSize

TokenBlock(token, j) == SubSeq(token, HexBlock * (j - 1) + 1, HexBlock * j)

PaddedBlocks(text) == Len(Pad(Encode(text))) \div BlockSize

EqualBlocksAlike(e) ==
    \A a, b \in 1..PaddedBlocks(e.text) :
        Block(Pad(Encode(e.text)), a) = Block(Pad(Encode(e.text)), b)
            => TokenBlock(e.token, a) = TokenBlock(e.token, b)

C27_AesDeterministic ==
    /\ (2 \in DOMAIN made /\ made[1].method # "chacha20" /\ made[1].key = made[2].key)
           => made[1].token = made[2].token
    /\ \A j \in DOMAIN made :
           made[j].method # "chacha20"
               => /\ Len(made[j].token) = HexBlock * PaddedBlocks(made[j].text)
                  /\ EqualBlocksAlike(made[j])

C27_SameTokenTwice ==
    /\ DOMAIN made = {1, 2}
    /\ made[1].method = "aes128"
    /\ made[1].key = made[2].key
    /\ made[1].nonce # made[2].nonce
    /\ made[1].text = H(32)
    /\ made[1].token = made[2].token
    /\ TokenBlock(made[1].token, 1) = TokenBlock(made[1].token, 2)
    /\ TokenBlock(made[1].token, 2) # TokenBlock(made[1].token, 3)

\* C28 (salt rows are framed): no operation of the cipher service adds,
\* changes or removes a salt row of the store: not the calls made through the
\* first-salt protocol, search, listing, reading, updating and deleting by
\* name, and not create_cipher, decrypt_cipher and delete_cipher with any
\* argument in any state.
CipherOps ==
    {"create_first", "decrypt_first", "decrypt_by_name", "delete_by_name", "search",
     "list_all", "get_cipher", "update_cipher"}

SaltsKept(o) == o.g.store["salt"] = store["salt"]

PlainCallsKeepSalts ==
    /\ \A name \in Names : \A pt \in Plaintexts : \A method \in MethodNames :
       \A key \in Keys : \A nonce \in Nonces :
           SaltsKept(create_cipher(Global, name, pt, method, key, nonce, TRUE, -1))
    /\ \A i \in Ids :
           /\ SaltsKept(delete_record(Global, "cipher", i, TRUE, -1))
           /\ \A key \in Keys \cup OtherKeys :
                  SaltsKept(decrypt_cipher(Global, i, key, TRUE, -1))

C28_CipherOpsKeepSalts ==
    /\ []PlainCallsKeepSalts
    /\ [][last'.op \in CipherOps => store'["salt"] = store["salt"]]_vars

C28_CreatedBesideSalts ==
    /\ last.op = "create_first"
    /\ last.pc = "done"
    /\ DOMAIN store["salt"] = {1, 2}
    /\ DOMAIN store["cipher"] = {1, 2}

\* C29 (read back as created): the record read back after a creation has the
\* integer id the creation returned and the fields that were stored, the
\* same when the read is answered by the cache, directly after the creation,
\* and when it is answered by the store, after the cache was flushed.
Flushed == [store |-> store, cache |-> EmptyMap]

AsCreated(k, i) == RetDict([id |-> IntVal(i), data |-> store[k][i]])

ReadBackAsCreated(k, i) ==
    /\ get_record(Global, k, i, TRUE, -1).ret = AsCreated(k, i)
    /\ get_record(Flushed, k, i, TRUE, -1).ret = AsCreated(k, i)

C29_ReadBackAsCreated ==
    /\ (last.op = "create_salt" /\ last.pc = "done")
           => ReadBackAsCreated("salt", last.ret.idv)
    /\ (last.op = "create_first" /\ last.pc = "done")
           => ReadBackAsCreated("cipher", last.ret.map.cipher_id)

\* C30 (delete by id): with store and cache answering, delete_salt and
\* delete_cipher of an id that is neither in the cache nor in the store
\* return False and change nothing; of an id whose row exists they return
\* True and remove that row and its cache entry and nothing else.
DeletedExactly(d, k, i) ==
    /\ d.ret = RetBool(TRUE)
    /\ d.g.store = [store EXCEPT ![k] = Remove(store[k], i)]
    /\ d.g.cache = Remove(cache, Key(k, i))

DeleteRefused(d) == d.ret = RetBool(FALSE) /\ d.g = Global

C30_DeleteById ==
    \A k \in Kinds : \A i \in Ids :
        /\ (~Has(store[k], i) /\ ~Has(cache, Key(k, i)))
               => DeleteRefused(delete_record(Global, k, i, TRUE, -1))
        /\ Has(store[k], i) => DeletedExactly(delete_record(Global, k, i, TRUE, -1), k, i)

C30_AbsentRefusedBesideOthers ==
    /\ last.op = "delete_record"
    /\ last.sok
    /\ ~last.had.row
    /\ ~last.had.key
    /\ last.pc = "done"
    /\ last.ret = RetBool(FALSE)
    /\ DOMAIN store[last.kind] # {}
    /\ \E i \in DOMAIN store[last.kind] : Has(cache, Key(last.kind, i))

\* C31 (stored method is a registry name): every cipher row of the store has
\* a method that is one of aes128, aes256, chacha20, also after calls whose
\* method argument differs from a registry name in letter case only.
C31_StoredMethodInRegistry ==
    \A i \in DOMAIN store["cipher"] : store["cipher"][i].method \in Strategies

\* C32 (supplied salt value is kept): create_salt generates a random value
\* only when no salt_value is given; for every salt_value string the caller
\* supplies, the stored salt holds exactly that value and get_salt returns
\* it with the requested method.
SaltAsAsked(i, method, v) ==
    /\ store["salt"][i] = [method |-> method, salt |-> v]
    /\ get_record(Global, "salt", i, TRUE, -1).ret.map.data = [method |-> method, salt |-> v]

C32_SuppliedSaltKept ==
    (last.op = "create_salt" /\ last.pc = "done")
    => /\ last.arg.salt.some
              => SaltAsAsked(last.ret.idv, last.arg.method, last.arg.salt.v)
       /\ ~last.arg.salt.some
              => store["salt"][last.ret.idv].salt \in RandomSalts

\* C33 (cache follows the store): when the repository operations run one at
\* a time and every cache call succeeds, after each operation every cache
\* entry is the entry of an existing row of its kind and id and holds that
\* row's fields: none is left for a deleted id or with outdated fields.
EntryOfRow(key) ==
    /\ Has(store[key[1]], key[2])
    /\ cache[key] = Cached(key[2], store[key[1]][key[2]])

C33_CacheFollowsStore ==
    (\A p \in Procs : Resting(p)) => \A key \in DOMAIN cache : EntryOfRow(key)

C33_EntriesAfterDeleteAndUpdate ==
    /\ \A p \in Procs : Resting(p)
    /\ \E p \in Procs : loc[p].op = "delete" /\ loc[p].pc = "done"
                           /\ ~Has(cache, Key(loc[p].kind, loc[p].id))
    /\ \E p \in Procs : loc[p].op = "update" /\ loc[p].pc = "done"
                           /\ Has(cache, Key(loc[p].kind, loc[p].id))
                           /\ store[loc[p].kind][loc[p].id] = loc[p].item

\* C34 (no resurrection by a concurrent reader): once a delete of an id has
\* returned and no row with the id exists, every get of the id that starts
\* afterwards returns not-found, also when a get or get_all that read the
\* store before the delete writes the cache after the delete removed the key.
DeleteReturned(k, i) ==
    \E p \in Procs : loc[p].op = "delete" /\ loc[p].pc = "done"
                        /\ loc[p].kind = k /\ loc[p].id = i

C34_DeletedNotResurrected ==
    \A k \in Kinds : \A i \in Ids :
        (DeleteReturned(k, i) /\ ~Has(store[k], i))
            => GetNow(Global, k, i).l.ret = RetNone

\* C35 (failed cache removal): after a delete whose store step committed and
\* whose cache removal failed, a get of the id made with the cache available
\* again returns not-found.
DeleteHalfDone ==
    /\ last.op = "delete"
    /\ last.sok
    /\ last.had.row
    /\ last.pc = "raised"
    /\ ~Has(store[last.kind], last.id)

C35_DeletedDespiteCacheFailure ==
    DeleteHalfDone => GetNow(Global, last.kind, last.id).l.ret = RetNone

\* C36 (the first salt is checked before the cipher is loaded): without a
\* salt 1, decrypt_cipher_with_first_salt_key fails with the
\* first-salt-missing error for every cipher id, also the id of no cipher,
\* and reads no cipher and decrypts nothing; it reports the cipher-not-found
\* error only when salt 1 exists.
SaltCheckedFirst(d, i) ==
    /\ ~Has(store["salt"], FirstSaltId)
           => /\ d.pc = "raised"
              /\ d.ret = RetFail("Exception", "FirstSaltMissing")
              /\ d.g = Global
    /\ (d.pc = "raised" /\ d.ret.why = "CipherNotFound")
           => (Has(store["salt"], FirstSaltId) /\ ~Has(store["cipher"], i))
    /\ (Has(store["salt"], FirstSaltId) /\ ~Has(store["cipher"], i))
           => (d.pc = "raised" /\ d.ret.why = "CipherNotFound")

After == [store |-> store', cache |-> cache']

SaltsGone ==
    /\ store'["salt"] = EmptyMap
    /\ cache' = EmptyMap
    /\ \A i \in Ids : get_record(After, "salt", i, TRUE, -1).ret = RetNone
    /\ list_all_salts(After, TRUE, -1).ret = RetList(EmptyMap)

CiphersAsBefore ==
    /\ store'["cipher"] = store["cipher"]
    /\ \A i \in DOMAIN store["cipher"] :
           get_record(After, "cipher", i, TRUE, -1).ret
               = get_record(Global, "cipher", i, TRUE, -1).ret

C37_DeleteAllSaltsFrame ==
    [][(JustDid("delete_all_salts") /\ last'.ret = RetBool(TRUE))
           => (SaltsGone /\ CiphersAsBefore)]_vars

\* C38 (update-salt replaces salt 1 in place): whenever a salt 1 exists and
\* the update-salt endpoint reports success, a salt 1 exists afterwards with
\* the requested method, and every cipher made through the first-salt
\* protocol still decrypts to its plaintext.
FirstSaltReplaced ==
    /\ Has(store'["salt"], FirstSaltId)
    /\ store'["salt"][FirstSaltId].method = last'.arg.method
    /\ \A i \in DOMAIN made' :
           Returned(decrypt_cipher_with_first_salt_key(After, i, TRUE, -1),
                    made'[i].plaintext)

C38_UpdateSaltInPlace ==
    [][(JustDid("update_salt") /\ Has(store["salt"], FirstSaltId)
            /\ last'.ret = RetHttp(200))
           => FirstSaltReplaced]_vars

\* C39 (renaming a cipher): update_cipher with a new name only needs no key;
\* for an existing id it returns True and changes the name and nothing else,
\* in the store and in the cache entry, so the ciphertext and the method are
\* as before and a cipher made through the first-salt protocol still
\* decrypts to its plaintext under its key; for an id of no cipher it
\* returns False and store and cache stay as they were.
NameOnly ==
    /\ last'.arg.name.some
    /\ ~last'.arg.plaintext.some
    /\ ~last'.arg.method.some
    /\ ~last'.arg.key.some

Renamed(i, name) ==
    /\ last'.ret = RetBool(TRUE)
    /\ store' = [store EXCEPT !["cipher"][i].name = name]
    /\ DOMAIN cache' = DOMAIN cache \cup {Key("cipher", i)}
    /\ cache'[Key("cipher", i)] = Cached(i, store'["cipher"][i])
    /\ \A key \in DOMAIN cache \ {Key("cipher", i)} : cache'[key] = cache[key]
    /\ Has(cache, Key("cipher", i))
           => /\ cache'[Key("cipher", i)].data.encrypted_cipher
                     = cache[Key("cipher", i)].data.encrypted_cipher
              /\ cache'[Key("cipher", i)].data.method = cache[Key("cipher", i)].data.method
    /\ made' = made
    /\ i \in DOMAIN made
           => Returned(decrypt_cipher(After, i, DecimalString(FirstSaltId), TRUE, -1),
                       made[i].plaintext)

NotRenamed ==
    /\ last'.ret = RetBool(FALSE)
    /\ store' = store
    /\ cache' = cache

C39_RenameOnly ==
    [][(JustDid("update_cipher") /\ NameOnly)
           => IF Has(store["cipher"], last'.id)
              THEN Renamed(last'.id, last'.arg.name.v)
              ELSE NotRenamed]_vars

C39_RenamedAndDecryptable ==
    /\ last.op = "update_cipher"
    /\ last.arg.name.some
    /\ ~last.arg.plaintext.some
    /\ ~last.arg.method.some
    /\ ~last.arg.key.some
    /\ last.ret = RetBool(TRUE)
    /\ last.id \in DOMAIN made
    /\ store["cipher"][last.id].name = last.arg.name.v
    /\ made[last.id].plaintext = "hi"

====
